---- MODULE Spec2Model ----
(***************************************************************************)
(* Concurrency toolkit of src/01_concurrency: the single-assignment        *)
(* Future (09_future.go) and the Actor mailbox / dispatch runtime          *)
(* (07_actor.go), modelled statement by statement.                         *)
(***************************************************************************)
EXTENDS Integers, Sequences, FiniteSets, TLC

(***************************************************************************)
(* Bounds of the model                                                     *)
(***************************************************************************)
\* number of goroutines that use one Future
NumTasks == 3
\* number of Future method calls the goroutines make in all
MaxCalls == 3
\* results are drawn from 1..NumValues, errors from 1..NumErrors
NumValues == 2
NumErrors == 1
\* number of goroutines that call the methods of one Actor
NumCallers == 2
\* number of Send calls, of Start calls and of Stop calls
MaxSends == 2
MaxStarts == 2
MaxStops == 2
\* number of messages the single sender of the mailbox scenario sends
MaxBurst == 102

\* make(chan Message, 100)
MailboxCap == 100

\* number of values the generator of a one-stage pipeline sends
MaxItems == 3

\* make(chan int, 10) of pipelineCSPExample, and its for i := 1; i <= 10
StageCap == 10
StageItems == 10
\* for i := 1; i <= 5 of multiProcessCSPExample
ProcItems == 5

\* number of values the generator of the fan-out / fan-in sends
MergeItems == 3

\* number of Subscribe calls and of Emit calls on one Observable
MaxSubs == 2
MaxEmits == 11

\* number of Emit calls and of Close calls made concurrently with Subscribe
\* and Close calls
BusEmits == 2
MaxCloses == 2

\* ch := make(chan interface{}, 10)
SubCap == 10

\* largest number of Futures chained one after the other
MaxChain == 4
\* the driver of the stateful actor sends at most this many Set / Get messages
MaxScript == 3
\* the driver of the actor pipeline sends at most this many items
MaxData == 4
\* the scheduler of the worker pool sends at most this many jobs
MaxJobs == 4
\* generic WorkerPool: the largest pool size, and the most jobs submitted
MaxPoolSize == 2
MaxSubmits == 4
\* mutexExample: the most iterations of a counting goroutine (1000 in the code)
MaxIterations == 2

\* fanInFanOutCSPExample: three workers, make(chan int, 10), make(chan int, 5),
\* make(chan int, 15)
NumWorkers == 3
InputCap == 10
OutputCap == 5
MergedCap == 15

FTasks == 1 .. NumTasks
Values == 1 .. NumValues
Errors == 1 .. NumErrors
\* Go's nil in the result and err slots
Nil == 0
\* nobody holds the write lock
NoTask == 0
ATasks == 1 .. NumCallers
Loops == 1 .. MaxStarts
\* Message.Type() of the messages sent; "work" has no handler
MsgTypes == {"string", "work"}
NoMsg == [from |-> NoTask, seq |-> 0, type |-> "none"]

VARIABLES
    \* ---- Future (09_future.go:12-17) ----
    result,     \* Future.result
    err,        \* Future.err
    done,       \* Future.done: TRUE once the channel is closed
    mu,         \* Future.mu: [writer, readers]
    \* ---- goroutines using the Future ----
    fpc,        \* position of each goroutine inside a Future method
    farg,       \* argument of the call in progress
    fret,       \* what the goroutine's last call returned
    fcalls,     \* number of calls each goroutine has started
    crashed,    \* the process has exited on an unrecovered panic
    \* ---- history of the Future ----
    fwrites,    \* number of assignments made to result / err
    fcloses,    \* number of times close(done) took effect
    firstSet,   \* <<result, err>> stored when done was closed
    gets,       \* every <<result, err>> some Get has returned
    tout,       \* goroutines whose GetWithTimeout timed out before done
    \* ---- Actor (07_actor.go:142-148) ----
    mailbox,    \* Actor.mailbox: the buffered messages, oldest first
    handlers,   \* Actor.handlers: the message types that have a handler
    wg,         \* Actor.wg: the WaitGroup counter
    stop,       \* Actor.stop: TRUE once the channel is closed
    \* ---- goroutines of the actor program ----
    lpc,        \* position of each dispatch goroutine spawned by Start
    lmsg,       \* the message a dispatch goroutine is handling
    nloops,     \* number of dispatch goroutines spawned so far
    apc,        \* position of each caller inside an Actor method
    amsg,       \* the message of the Send in progress
    aret,       \* how the caller's last call ended
    aseq,       \* number of Send calls each caller has started
    nStart,     \* number of Start calls started
    nStop,      \* number of Stop calls started
    \* ---- history of the actor ----
    sent,       \* messages in the order Send put them into the mailbox
    taken,      \* messages in the order the dispatch loops received them
    handled,    \* messages in the order their handlers were invoked
    joined,     \* callers whose last Stop was called on a Running actor
    late,       \* callers whose last Send was called on a Stopped actor
    running     \* number of dispatch loops alive when Stop last returned

fvars == <<result, err, done, mu, fpc, farg, fret, fcalls,
           fwrites, fcloses, firstSet, gets, tout>>

avars == <<mailbox, handlers, wg, stop, lpc, lmsg, nloops, apc, amsg, aret,
           aseq, nStart, nStop, sent, taken, handled, joined, late, running>>

\* ---- pipelines of goroutines and channels (08_csp.go:82-185) ----
VARIABLES
    cfg,        \* the pipeline that runs: [n, cap, fns]
    chans,      \* chans[c]: the channel stage c-1 sends on and stage c ranges over
    spc,        \* position of each stage goroutine
    hold,       \* the value a stage is about to send
    got,        \* the values each stage has received
    put,        \* the values each stage has sent
    ncl         \* close() calls made on each channel

pvars == <<cfg, chans, spc, hold, got, put, ncl>>

\* ---- fan-out / fan-in (08_csp.go:188-296) ----
VARIABLES
    mn,         \* number of values the generator sends
    mch,        \* the channels input, output1..3 and merged
    mpc,        \* position of each goroutine
    mhold,      \* the value a goroutine is about to send
    mgen,       \* values the generator has sent
    counter,    \* counter of the fan-out goroutine
    mwg,        \* wg of the fan-in goroutine
    dispatched, \* the values sent on each output channel
    collected   \* the values the collector has read from merged

mvars == <<mn, mch, mpc, mhold, mgen, counter, mwg, dispatched, collected>>

\* ---- Observable (03_reflection/README.md:1343-1398) ----
VARIABLES
    observers,  \* Observable.observers: the subscriber channels registered
    oclosed,    \* Observable.closed
    omu,        \* Observable.mu: [writer, readers]
    och,        \* every subscriber channel made so far
    opc,        \* position of each goroutine that calls the Observable
    oval,       \* data of the Emit in progress
    oidx,       \* index of the range loop of the Emit in progress
    oret,       \* what the last call of each goroutine returned
    nemit,      \* Emit calls made so far
    nclose,     \* Close calls made so far
    received,   \* the values read from each subscriber channel
    dropped,    \* the values Emit skipped for each subscriber channel
    ocl,        \* close() calls made on each subscriber channel
    sdone       \* the subscribers whose range loop has ended

ovars == <<observers, oclosed, omu, och, opc, oval, oidx, oret, nemit, nclose,
           received, dropped, ocl, sdone>>

\* ---- a chain of Futures (09_future.go:245-290) ----
VARIABLES
    cn,         \* number of Futures in the chain
    cfut,       \* cfut[i]: result, err, done and mu of the i-th Future
    cpc,        \* position of each goroutine of the chain
    cloc,       \* the value and error a goroutine got from its upstream Future
    cwrites,    \* assignments made to each Future
    ccloses     \* close(f.done) calls made on each Future

cvars == <<cn, cfut, cpc, cloc, cwrites, ccloses>>

\* ---- statefulActorExample (07_actor.go:403-462) ----
VARIABLES
    script,     \* the Set and Get messages the driver sends, in order
    state,      \* StatefulActor.state: the value stored under each key
    respch,     \* responseChan: the buffered responses, oldest first
    sgot        \* the values the driver received from responseChan, in order

svars == <<script, state, respch, sgot>>

\* ---- pipelineActorExample (07_actor.go:517-570) ----
VARIABLES
    gn,         \* number of items the driver sends to stage1
    gmail,      \* gmail[s]: the mailbox of stage s, oldest message first
    gstop,      \* gstop[s]: the stop channel of stage s is closed
    gwg,        \* gwg[s]: the WaitGroup counter of stage s
    glpc,       \* position of the dispatch goroutine of each stage
    glmsg,      \* the message the dispatch goroutine of a stage is handling
    dpc,        \* number of calls the driver has completed
    dwait,      \* the driver is inside Stop, after close(a.stop)
    ghandled    \* ghandled[s]: the messages handled by stage s, in order

gvars == <<gn, gmail, gstop, gwg, glpc, glmsg, dpc, dwait, ghandled>>

\* ---- the remaining examples: goroutines, channels, WaitGroups, locks ----
VARIABLES
    ech,        \* ech[c]: the values buffered in channel c, oldest first
    eclosed,    \* the channels that have been closed
    epc,        \* epc[g]: position of goroutine g
    eloc,       \* eloc[g]: the local value goroutine g holds
    ewg,        \* ewg[w]: the counter of WaitGroup w
    emem,       \* emem[x]: the shared variable x of the example
    ehist,      \* ehist[g]: what goroutine g has handled or received, in order
    eprog,      \* the calls of the driver, in program order
    ehandlers   \* ehandlers[a]: the message types actor a has a handler for

evars == <<ech, eclosed, epc, eloc, ewg, emem, ehist, eprog, ehandlers>>

xvars == <<pvars, mvars, ovars, cvars, svars, gvars, evars>>

notPipeline == <<fvars, avars, crashed, mvars, ovars, cvars, svars,
    gvars, evars>>
notMerge == <<fvars, avars, crashed, pvars, ovars, cvars, svars,
    gvars, evars>>
notObservable == <<fvars, avars, crashed, pvars, mvars, cvars, svars,
    gvars, evars>>
notChain == <<fvars, avars, crashed, pvars, mvars, ovars, svars,
    gvars, evars>>
notActor == <<fvars, pvars, mvars, ovars, cvars, gvars, evars>>
notStages == <<fvars, avars, crashed, pvars, mvars, ovars, cvars, svars,
    evars>>
notExamples == <<fvars, avars, crashed, pvars, mvars, ovars, cvars, svars,
    gvars>>

vars == <<fvars, crashed, avars, xvars>>

(***************************************************************************)
(* Future: NewFuture                                                       *)
(***************************************************************************)
Void == [kind |-> "void", r |-> Nil, e |-> Nil]
NoRet == [kind |-> "none", r |-> Nil, e |-> Nil]

NewFuture ==
    /\ result = Nil
    /\ err = Nil
    /\ done = FALSE
    /\ mu = [writer |-> NoTask, readers |-> {}]

InitFuture ==
    /\ NewFuture
    /\ fpc = [t \in FTasks |-> "idle"]
    /\ farg = [t \in FTasks |-> Nil]
    /\ fret = [t \in FTasks |-> NoRet]
    /\ fcalls = [t \in FTasks |-> 0]
    /\ crashed = FALSE
    /\ fwrites = 0
    /\ fcloses = 0
    /\ firstSet = <<Nil, Nil>>
    /\ gets = {}
    /\ tout = {}

\* sync.RWMutex
CanLock == mu.writer = NoTask /\ mu.readers = {}
CanRLock == mu.writer = NoTask

FGoto(t, to) == fpc' = [fpc EXCEPT ![t] = to]
\* goroutine t is at `at` and the process is alive; a step of a Future
\* method touches no field of the actor
FRunning(t, at) == ~crashed /\ fpc[t] = at /\ UNCHANGED <<avars, xvars>>

(***************************************************************************)
(* Future.SetResult (09_future.go:27-32)                                   *)
(***************************************************************************)
\* f.mu.Lock()
SetResult_Lock(t) ==
    /\ FRunning(t, "sr_lock")
    /\ CanLock
    /\ mu' = [mu EXCEPT !.writer = t]
    /\ FGoto(t, "sr_write")
    /\ UNCHANGED <<result, err, done, farg, fret, fcalls, crashed,
                   fwrites, fcloses, firstSet, gets, tout>>

\* f.result = result
SetResult_Write(t) ==
    /\ FRunning(t, "sr_write")
    /\ result' = farg[t]
    /\ fwrites' = fwrites + 1
    /\ FGoto(t, "sr_close")
    /\ UNCHANGED <<err, done, mu, farg, fret, fcalls, crashed,
                   fcloses, firstSet, gets, tout>>

\* close(f.done): closing a closed channel panics
CloseDone(t, ok, panic) ==
    IF done
    THEN /\ FGoto(t, panic)
         /\ UNCHANGED <<done, fcloses, firstSet>>
    ELSE /\ done' = TRUE
         /\ fcloses' = fcloses + 1
         /\ firstSet' = <<result, err>>
         /\ FGoto(t, ok)

SetResult_Close(t) ==
    /\ FRunning(t, "sr_close")
    /\ CloseDone(t, "sr_unlock", "sr_panic")
    /\ UNCHANGED <<result, err, mu, farg, fret, fcalls, crashed,
                   fwrites, gets, tout>>

\* defer f.mu.Unlock(), on the normal return and while the panic unwinds
DeferredUnlock(t, normal, panicking) ==
    /\ \/ /\ fpc[t] = normal
          /\ FGoto(t, "idle")
          /\ fret' = [fret EXCEPT ![t] = Void]
       \/ /\ fpc[t] = panicking
          /\ FGoto(t, "panicked")
          /\ fret' = [fret EXCEPT ![t] = [kind |-> "panic", r |-> Nil, e |-> Nil]]
    /\ mu' = [mu EXCEPT !.writer = NoTask]

SetResult_Unlock(t) ==
    /\ ~crashed /\ UNCHANGED <<avars, xvars>>
    /\ DeferredUnlock(t, "sr_unlock", "sr_panic")
    /\ UNCHANGED <<result, err, done, farg, fcalls, crashed,
                   fwrites, fcloses, firstSet, gets, tout>>

(***************************************************************************)
(* Future.SetError (09_future.go:35-40)                                    *)
(***************************************************************************)
SetError_Lock(t) ==
    /\ FRunning(t, "se_lock")
    /\ CanLock
    /\ mu' = [mu EXCEPT !.writer = t]
    /\ FGoto(t, "se_write")
    /\ UNCHANGED <<result, err, done, farg, fret, fcalls, crashed,
                   fwrites, fcloses, firstSet, gets, tout>>

\* f.err = err
SetError_Write(t) ==
    /\ FRunning(t, "se_write")
    /\ err' = farg[t]
    /\ fwrites' = fwrites + 1
    /\ FGoto(t, "se_close")
    /\ UNCHANGED <<result, done, mu, farg, fret, fcalls, crashed,
                   fcloses, firstSet, gets, tout>>

SetError_Close(t) ==
    /\ FRunning(t, "se_close")
    /\ CloseDone(t, "se_unlock", "se_panic")
    /\ UNCHANGED <<result, err, mu, farg, fret, fcalls, crashed,
                   fwrites, gets, tout>>

SetError_Unlock(t) ==
    /\ ~crashed /\ UNCHANGED <<avars, xvars>>
    /\ DeferredUnlock(t, "se_unlock", "se_panic")
    /\ UNCHANGED <<result, err, done, farg, fcalls, crashed,
                   fwrites, fcloses, firstSet, gets, tout>>

(***************************************************************************)
(* Future.Get (09_future.go:43-48)                                         *)
(***************************************************************************)
\* <-f.done
Get_Wait(t) ==
    /\ FRunning(t, "g_wait")
    /\ done
    /\ FGoto(t, "g_rlock")
    /\ UNCHANGED <<result, err, done, mu, farg, fret, fcalls, crashed,
                   fwrites, fcloses, firstSet, gets, tout>>

\* f.mu.RLock()
RLock(t, from, to) ==
    /\ FRunning(t, from)
    /\ CanRLock
    /\ mu' = [mu EXCEPT !.readers = @ \cup {t}]
    /\ FGoto(t, to)

Get_RLock(t) ==
    /\ RLock(t, "g_rlock", "g_ret")
    /\ UNCHANGED <<result, err, done, farg, fret, fcalls, crashed,
                   fwrites, fcloses, firstSet, gets, tout>>

\* return f.result, f.err, then the deferred f.mu.RUnlock()
ReturnValue(t, from) ==
    /\ FRunning(t, from)
    /\ fret' = [fret EXCEPT ![t] = [kind |-> "value", r |-> result, e |-> err]]
    /\ gets' = gets \cup {<<result, err>>}
    /\ mu' = [mu EXCEPT !.readers = @ \ {t}]
    /\ FGoto(t, "idle")

\* a Get that takes the value out of the Future
Get_ReturnConsumes(t) ==
    /\ FRunning(t, "g_ret")
    /\ fret' = [fret EXCEPT ![t] = [kind |-> "value", r |-> result, e |-> err]]
    /\ gets' = gets \cup {<<result, err>>}
    /\ mu' = [mu EXCEPT !.readers = @ \ {t}]
    /\ FGoto(t, "idle")
    /\ result' = Nil
    /\ UNCHANGED <<err, done, farg, fcalls, crashed,
                   fwrites, fcloses, firstSet, tout>>

Get_Return(t) ==
    /\ ReturnValue(t, "g_ret")
    /\ UNCHANGED <<result, err, done, farg, fcalls, crashed,
                   fwrites, fcloses, firstSet, tout>>

(***************************************************************************)
(* Future.GetWithTimeout (09_future.go:51-60)                              *)
(***************************************************************************)
\* case <-f.done:
GetWithTimeout_Done(t) ==
    /\ FRunning(t, "gt_select")
    /\ done
    /\ FGoto(t, "gt_rlock")
    /\ UNCHANGED <<result, err, done, mu, farg, fret, fcalls, crashed,
                   fwrites, fcloses, firstSet, gets, tout>>

GetWithTimeout_RLock(t) ==
    /\ RLock(t, "gt_rlock", "gt_ret")
    /\ UNCHANGED <<result, err, done, farg, fret, fcalls, crashed,
                   fwrites, fcloses, firstSet, gets, tout>>

GetWithTimeout_Return(t) ==
    /\ ReturnValue(t, "gt_ret")
    /\ UNCHANGED <<result, err, done, farg, fcalls, crashed,
                   fwrites, fcloses, firstSet, tout>>

\* a timeout that cancels the Future: it closes done on its way out
GetWithTimeout_TimeoutCancels(t) ==
    /\ FRunning(t, "gt_select")
    /\ fret' = [fret EXCEPT ![t] = [kind |-> "timeout", r |-> Nil, e |-> Nil]]
    /\ tout' = IF done THEN tout ELSE tout \cup {t}
    /\ done' = TRUE
    /\ FGoto(t, "idle")
    /\ UNCHANGED <<result, err, mu, farg, fcalls, crashed,
                   fwrites, fcloses, firstSet, gets>>

\* case <-time.After(timeout): the timer can fire at any moment
GetWithTimeout_Timeout(t) ==
    /\ FRunning(t, "gt_select")
    /\ fret' = [fret EXCEPT ![t] = [kind |-> "timeout", r |-> Nil, e |-> Nil]]
    /\ tout' = IF done THEN tout ELSE tout \cup {t}
    /\ FGoto(t, "idle")
    /\ UNCHANGED <<result, err, done, mu, farg, fcalls, crashed,
                   fwrites, fcloses, firstSet, gets>>

(***************************************************************************)
(* Future.IsDone (09_future.go:63-70)                                      *)
(***************************************************************************)
\* an IsDone that waits for the done signal as Get does
IsDone_Blocking(t) ==
    /\ FRunning(t, "idle")
    /\ done
    /\ fcalls' = [fcalls EXCEPT ![t] = @ + 1]
    /\ fret' = [fret EXCEPT ![t] = [kind |-> "isdone", r |-> 1, e |-> Nil]]
    /\ UNCHANGED <<result, err, done, mu, fpc, farg, crashed,
                   fwrites, fcloses, firstSet, gets, tout>>

\* select { case <-f.done: return true; default: return false }
IsDone(t) ==
    /\ FRunning(t, "idle")
    /\ fcalls' = [fcalls EXCEPT ![t] = @ + 1]
    /\ fret' = [fret EXCEPT ![t] =
                  [kind |-> "isdone", r |-> IF done THEN 1 ELSE 0, e |-> Nil]]
    /\ UNCHANGED <<result, err, done, mu, fpc, farg, crashed,
                   fwrites, fcloses, firstSet, gets, tout>>

(***************************************************************************)
(* The goroutines: any goroutine may call any method of the Future         *)
(***************************************************************************)
FCall(t, entry, arg) ==
    /\ FRunning(t, "idle")
    /\ fcalls' = [fcalls EXCEPT ![t] = @ + 1]
    /\ farg' = [farg EXCEPT ![t] = arg]
    /\ FGoto(t, entry)
    /\ UNCHANGED <<result, err, done, mu, fret, crashed,
                   fwrites, fcloses, firstSet, gets, tout>>

RECURSIVE Total(_, _)
Total(f, S) ==
    IF S = {} THEN 0
    ELSE LET x == CHOOSE y \in S : TRUE IN f[x] + Total(f, S \ {x})

MayCall(t) == Total(fcalls, FTasks) < MaxCalls

CallSetResult(t) == MayCall(t) /\ \E v \in Values : FCall(t, "sr_lock", v)
CallSetError(t) == MayCall(t) /\ \E e \in Errors : FCall(t, "se_lock", e)
CallGet(t) == MayCall(t) /\ FCall(t, "g_wait", Nil)
CallGetWithTimeout(t) == MayCall(t) /\ FCall(t, "gt_select", Nil)
CallIsDone(t) == MayCall(t) /\ IsDone(t)



(***************************************************************************)
(* Actor: NewActor (07_actor.go:151-158) and RegisterHandler (161-163),    *)
(* called before Start as in basicActorExample (234-244)                   *)
(***************************************************************************)
\* make(chan Message, 100), make(chan struct{}), the zero WaitGroup
NewActor ==
    /\ mailbox = << >>
    /\ wg = 0
    /\ stop = FALSE

\* a.handlers[msgType] = handler
RegisterHandler(h, msgType) == h \cup {msgType}

\* the actor of basicActorExample before its handlers are registered
InitActorState ==
    /\ NewActor
    /\ lpc = [i \in Loops |-> "none"]
    /\ lmsg = [i \in Loops |-> NoMsg]
    /\ nloops = 0
    /\ apc = [t \in ATasks |-> "idle"]
    /\ amsg = [t \in ATasks |-> NoMsg]
    /\ aret = [t \in ATasks |-> "none"]
    /\ aseq = [t \in ATasks |-> 0]
    /\ nStart = 0
    /\ nStop = 0
    /\ sent = << >>
    /\ taken = << >>
    /\ handled = << >>
    /\ joined = {}
    /\ late = {}
    /\ running = 0

\* the "string" and "number" handlers are registered
InitActor ==
    /\ InitActorState
    /\ handlers = RegisterHandler(RegisterHandler({}, "string"), "number")

\* the "string", "number" and "stop" handlers are registered; the "stop"
\* handler calls actor.Stop()
InitBasicActor ==
    /\ InitActorState
    /\ handlers = RegisterHandler(RegisterHandler(
                      RegisterHandler({}, "string"), "number"), "stop")

AGoto(t, to) == apc' = [apc EXCEPT ![t] = to]
\* caller t is at `at` and the process is alive; a step of an Actor method
\* touches no field of the Future
ARunning(t, at) == ~crashed /\ apc[t] = at /\ UNCHANGED <<fvars, xvars>>

\* the dispatch loops that are alive
Alive == {i \in Loops : lpc[i] \in {"select", "dispatch", "handle", "h_wait"}}
\* lifecycle of the actor as the code has it
Created == nloops = 0 /\ ~stop
Running == Alive # {} /\ ~stop
Stopped == stop /\ nloops > 0 /\ Alive = {} /\ wg = 0

(***************************************************************************)
(* Actor.Send (07_actor.go:166-168)                                        *)
(***************************************************************************)
\* a Send that never blocks: the buffer grows without limit
Send_Unbounded(t) ==
    /\ ARunning(t, "send")
    /\ mailbox' = Append(mailbox, amsg[t])
    /\ sent' = Append(sent, amsg[t])
    /\ aret' = [aret EXCEPT ![t] = "ok"]
    /\ AGoto(t, "idle")
    /\ UNCHANGED <<handlers, wg, stop, lpc, lmsg, nloops, amsg, aseq,
                   nStart, nStop, taken, handled, joined, late, running,
                   crashed>>

\* a.mailbox <- msg: blocks while the buffer is full
Send_Enqueue(t) ==
    /\ ARunning(t, "send")
    /\ Len(mailbox) < MailboxCap
    /\ mailbox' = Append(mailbox, amsg[t])
    /\ sent' = Append(sent, amsg[t])
    /\ aret' = [aret EXCEPT ![t] = "ok"]
    /\ AGoto(t, "idle")
    /\ UNCHANGED <<handlers, wg, stop, lpc, lmsg, nloops, amsg, aseq,
                   nStart, nStop, taken, handled, joined, late, running,
                   crashed>>

(***************************************************************************)
(* Actor.Start (07_actor.go:171-189)                                       *)
(***************************************************************************)
\* a.wg.Add(1)
Start_Add(t) ==
    /\ ARunning(t, "start_add")
    /\ wg' = wg + 1
    /\ AGoto(t, "start_go")
    /\ UNCHANGED <<mailbox, handlers, stop, lpc, lmsg, nloops, amsg, aret,
                   aseq, nStart, nStop, sent, taken, handled, joined, late,
                   running, crashed>>

\* go func() { ... }()
Start_Go(t) ==
    /\ ARunning(t, "start_go")
    /\ nloops' = nloops + 1
    /\ lpc' = [lpc EXCEPT ![nloops + 1] = "select"]
    /\ aret' = [aret EXCEPT ![t] = "ok"]
    /\ AGoto(t, "idle")
    /\ UNCHANGED <<mailbox, handlers, wg, stop, lmsg, amsg, aseq,
                   nStart, nStop, sent, taken, handled, joined, late,
                   running, crashed>>

\* a mailbox that hands out the newest message first
ReceiveNewest(mb) == mb[Len(mb)]

\* the message the loop takes from the mailbox
Receive(mb) == Head(mb)
Remaining(mb) == Tail(mb)

\* case msg := <-a.mailbox:
Loop_Receive(i) ==
    /\ ~crashed /\ UNCHANGED <<fvars, xvars>>
    /\ lpc[i] = "select"
    /\ mailbox # << >>
    /\ mailbox' = Remaining(mailbox)
    /\ taken' = Append(taken, Receive(mailbox))
    /\ lmsg' = [lmsg EXCEPT ![i] = Receive(mailbox)]
    /\ lpc' = [lpc EXCEPT ![i] = "dispatch"]
    /\ UNCHANGED <<handlers, wg, stop, nloops, apc, amsg, aret, aseq,
                   nStart, nStop, sent, handled, joined, late, running,
                   crashed>>

\* a dispatch that gives up on a message without a handler: the loop returns
Loop_DispatchFatal(i) ==
    /\ ~crashed /\ UNCHANGED <<fvars, xvars>>
    /\ lpc[i] = "dispatch"
    /\ IF lmsg[i].type \in handlers
       THEN /\ lpc' = [lpc EXCEPT ![i] = "handle"]
            /\ handled' = Append(handled, lmsg[i])
            /\ UNCHANGED <<lmsg, wg>>
       ELSE /\ lpc' = [lpc EXCEPT ![i] = "exited"]
            /\ wg' = wg - 1
            /\ UNCHANGED <<lmsg, handled>>
    /\ UNCHANGED <<mailbox, handlers, stop, nloops, apc, amsg, aret,
                   aseq, nStart, nStop, sent, taken, joined, late, running,
                   crashed>>

\* if handler, exists := a.handlers[msg.Type()]; exists { handler(msg) }
\* else: the loop prints "unknown message type" and selects again
Loop_Dispatch(i) ==
    /\ ~crashed /\ UNCHANGED <<fvars, xvars>>
    /\ lpc[i] = "dispatch"
    /\ IF lmsg[i].type \in handlers
       THEN /\ lpc' = [lpc EXCEPT ![i] = "handle"]
            /\ handled' = Append(handled, lmsg[i])
            /\ UNCHANGED lmsg
       ELSE /\ lpc' = [lpc EXCEPT ![i] = "select"]
            /\ lmsg' = [lmsg EXCEPT ![i] = NoMsg]
            /\ UNCHANGED handled
    /\ UNCHANGED <<mailbox, handlers, wg, stop, nloops, apc, amsg, aret,
                   aseq, nStart, nStop, sent, taken, joined, late, running,
                   crashed>>

\* the "stop" handler of basicActorExample: actor.Stop() called inside the
\* dispatch goroutine; close(a.stop) panics when a.stop is closed already,
\* and the panic unwinds through the deferred a.wg.Done()
Handler_Stop(i) ==
    /\ ~crashed /\ UNCHANGED <<fvars, xvars>>
    /\ lpc[i] = "handle"
    /\ lmsg[i].type = "stop"
    /\ IF stop
       THEN /\ lpc' = [lpc EXCEPT ![i] = "panicked"]
            /\ wg' = wg - 1
            /\ UNCHANGED stop
       ELSE /\ stop' = TRUE
            /\ lpc' = [lpc EXCEPT ![i] = "h_wait"]
            /\ UNCHANGED wg
    /\ UNCHANGED <<mailbox, handlers, lmsg, nloops, apc, amsg, aret,
                   aseq, nStart, nStop, sent, taken, handled, joined, late,
                   running, crashed>>

\* the handler returns and the loop selects again; the "stop" handler
\* returns when the a.wg.Wait() of its actor.Stop() does
Loop_HandlerReturn(i) ==
    /\ ~crashed /\ UNCHANGED <<fvars, xvars>>
    /\ \/ lpc[i] = "handle" /\ lmsg[i].type # "stop"
       \/ lpc[i] = "h_wait" /\ wg = 0
    /\ lpc' = [lpc EXCEPT ![i] = "select"]
    /\ lmsg' = [lmsg EXCEPT ![i] = NoMsg]
    /\ UNCHANGED <<mailbox, handlers, wg, stop, nloops, apc, amsg, aret,
                   aseq, nStart, nStop, sent, taken, handled, joined, late,
                   running, crashed>>

\* handler(msg) panics: the goroutine has no recover, so the panic unwinds
\* through the deferred a.wg.Done() and leaves the dispatch goroutine dead
Loop_HandlerPanic(i) ==
    /\ ~crashed /\ UNCHANGED <<fvars, xvars>>
    /\ lpc[i] = "handle"
    /\ lpc' = [lpc EXCEPT ![i] = "panicked"]
    /\ wg' = wg - 1
    /\ UNCHANGED <<mailbox, handlers, stop, lmsg, nloops, apc, amsg, aret,
                   aseq, nStart, nStop, sent, taken, handled, joined, late,
                   running, crashed>>

\* case <-a.stop: return, and the deferred a.wg.Done()
Loop_Stop(i) ==
    /\ ~crashed /\ UNCHANGED <<fvars, xvars>>
    /\ lpc[i] = "select"
    /\ stop
    /\ lpc' = [lpc EXCEPT ![i] = "exited"]
    /\ wg' = wg - 1
    /\ UNCHANGED <<mailbox, handlers, stop, lmsg, nloops, apc, amsg, aret,
                   aseq, nStart, nStop, sent, taken, handled, joined, late,
                   running, crashed>>

(***************************************************************************)
(* Actor.Stop (07_actor.go:192-195)                                        *)
(***************************************************************************)
\* close(a.stop): closing a closed channel panics
Stop_Close(t) ==
    /\ ARunning(t, "stop_close")
    /\ IF stop
       THEN /\ AGoto(t, "panicked")
            /\ aret' = [aret EXCEPT ![t] = "panic"]
            /\ UNCHANGED stop
       ELSE /\ stop' = TRUE
            /\ AGoto(t, "stop_wait")
            /\ UNCHANGED aret
    /\ UNCHANGED <<mailbox, handlers, wg, lpc, lmsg, nloops, amsg, aseq,
                   nStart, nStop, sent, taken, handled, joined, late,
                   running, crashed>>

\* a Stop that does not join: it returns without waiting for the loop
Stop_NoWait(t) ==
    /\ ARunning(t, "stop_wait")
    /\ running' = Cardinality(Alive)
    /\ aret' = [aret EXCEPT ![t] = "ok"]
    /\ AGoto(t, "idle")
    /\ UNCHANGED <<mailbox, handlers, wg, stop, lpc, lmsg, nloops, amsg,
                   aseq, nStart, nStop, sent, taken, handled, joined, late,
                   crashed>>

\* a.wg.Wait()
Stop_Wait(t) ==
    /\ ARunning(t, "stop_wait")
    /\ wg = 0
    /\ running' = Cardinality(Alive)
    /\ aret' = [aret EXCEPT ![t] = "ok"]
    /\ AGoto(t, "idle")
    /\ UNCHANGED <<mailbox, handlers, wg, stop, lpc, lmsg, nloops, amsg,
                   aseq, nStart, nStop, sent, taken, handled, joined, late,
                   crashed>>

(***************************************************************************)
(* The callers of the actor                                                *)
(***************************************************************************)
CallStart(t) ==
    /\ ARunning(t, "idle")
    /\ nStart' = nStart + 1
    /\ joined' = joined \ {t}
    /\ late' = late \ {t}
    /\ AGoto(t, "start_add")
    /\ UNCHANGED <<mailbox, handlers, wg, stop, lpc, lmsg, nloops, amsg,
                   aret, aseq, nStop, sent, taken, handled,
                   running, crashed>>

CallStop(t) ==
    /\ ARunning(t, "idle")
    /\ nStop' = nStop + 1
    /\ joined' = IF Running THEN joined \cup {t} ELSE joined \ {t}
    /\ late' = late \ {t}
    /\ AGoto(t, "stop_close")
    /\ UNCHANGED <<mailbox, handlers, wg, stop, lpc, lmsg, nloops, amsg,
                   aret, aseq, nStart, sent, taken, handled,
                   running, crashed>>

CallSend(t, type) ==
    /\ ARunning(t, "idle")
    /\ aseq' = [aseq EXCEPT ![t] = @ + 1]
    /\ amsg' = [amsg EXCEPT ![t] =
                  [from |-> t, seq |-> aseq[t] + 1, type |-> type]]
    /\ late' = IF Stopped THEN late \cup {t} ELSE late \ {t}
    /\ joined' = joined \ {t}
    /\ AGoto(t, "send")
    /\ UNCHANGED <<mailbox, handlers, wg, stop, lpc, lmsg, nloops, aret,
                   nStart, nStop, sent, taken, handled,
                   running, crashed>>

\* any caller may call any method
AnyStart(t) == nStart < MaxStarts /\ CallStart(t)
AnyStop(t) == nStop < MaxStops /\ CallStop(t)
Sending == {t \in ATasks : apc[t] = "send"}
AnySend(t) ==
    /\ Len(sent) + Cardinality(Sending) < MaxSends
    /\ \E type \in MsgTypes : CallSend(t, type)

(***************************************************************************)
(* Pipelines: a generator goroutine, processing goroutines that range      *)
(* over their input channel and send on their output channel, and a        *)
(* collector (08_csp.go:82-185)                                            *)
(***************************************************************************)
\* a stage that forwards its input unchanged
ApplyNothing(fn, x) == x

\* the stage functions of the two examples
Apply(fn, x) ==
    CASE fn = "double" -> x * 2
      [] fn = "square" -> x * x
      [] OTHER -> x

\* if data%2 == 0 { forward } else { drop }; the other stages forward all
Passes(fn, x) == IF fn = "even" THEN x % 2 = 0 ELSE TRUE

\* pipelineCSPExample, multiProcessCSPExample, and a generator feeding one
\* transformation stage
PipelineConfigs ==
    {[n |-> StageItems, cap |-> StageCap, fns |-> <<"even", "square">>],
     [n |-> ProcItems, cap |-> 0, fns |-> <<"double", "even">>]}
    \cup {[n |-> n, cap |-> c, fns |-> <<"square">>] :
             n \in 0 .. MaxItems, c \in {0, StageCap}}

NoPipeline == [n |-> 0, cap |-> 0, fns |-> <<>>]

\* stage 0 generates, stages 1 .. Last-1 process, stage Last collects;
\* channel c carries the values of stage c-1 to stage c
Last == Len(cfg.fns) + 1
Senders == {s \in DOMAIN spc : s < Last}
Receivers == {s \in DOMAIN spc : s > 0}

EmptyChan == [buf |-> <<>>, closed |-> FALSE]

\* no pipeline runs
InitNoPipeline ==
    /\ cfg = NoPipeline
    /\ chans = <<>>
    /\ spc = <<>>
    /\ hold = <<>>
    /\ got = <<>>
    /\ put = <<>>
    /\ ncl = <<>>

\* the channels are made and every goroutine is started
InitPipeline ==
    /\ cfg \in PipelineConfigs
    /\ chans = [c \in 1 .. Len(cfg.fns) + 1 |-> EmptyChan]
    /\ spc = [s \in 0 .. Len(cfg.fns) + 1 |-> IF s = 0 THEN "loop" ELSE "recv"]
    /\ hold = [s \in 0 .. Len(cfg.fns) + 1 |-> 0]
    /\ got = [s \in 0 .. Len(cfg.fns) + 1 |-> <<>>]
    /\ put = [s \in 0 .. Len(cfg.fns) + 1 |-> <<>>]
    /\ ncl = [c \in 1 .. Len(cfg.fns) + 1 |-> 0]

PRunning(s, at) ==
    /\ ~crashed
    /\ s \in DOMAIN spc
    /\ spc[s] = at
    /\ UNCHANGED <<notPipeline, cfg>>

\* for i := 1; i <= n; i++ { ... }; the deferred close runs after the loop
Gen_Next ==
    /\ PRunning(0, "loop")
    /\ IF Len(put[0]) < cfg.n
       THEN /\ hold' = [hold EXCEPT ![0] = Len(put[0]) + 1]
            /\ spc' = [spc EXCEPT ![0] = "send"]
       ELSE /\ spc' = [spc EXCEPT ![0] = "close"]
            /\ UNCHANGED hold
    /\ UNCHANGED <<chans, got, put, ncl>>

\* where a stage goes after its send, and what a receiver does with a value
AfterSend(s) == IF s = 0 THEN "loop" ELSE "recv"
Forwards(s, v) == s < Last /\ Passes(cfg.fns[s], v)
AfterRecv(s, v) == IF Forwards(s, v) THEN "send" ELSE "recv"
Held(s, v) == IF Forwards(s, v) THEN Apply(cfg.fns[s], v) ELSE hold[s]

\* ch <- v on a buffered channel: blocks while the buffer is full, panics
\* on a closed channel
Stage_Send(s) ==
    /\ PRunning(s, "send")
    /\ s \in Senders
    /\ cfg.cap > 0
    /\ IF chans[s + 1].closed
       THEN /\ spc' = [spc EXCEPT ![s] = "panicked"]
            /\ UNCHANGED <<chans, hold, put>>
       ELSE /\ Len(chans[s + 1].buf) < cfg.cap
            /\ chans' = [chans EXCEPT ![s + 1].buf = Append(@, hold[s])]
            /\ put' = [put EXCEPT ![s] = Append(@, hold[s])]
            /\ hold' = [hold EXCEPT ![s] = 0]
            /\ spc' = [spc EXCEPT ![s] = AfterSend(s)]
    /\ UNCHANGED <<got, ncl>>

\* ch <- v on an unbuffered channel: the sender and the receiving range
\* loop meet
Stage_Handoff(s) ==
    /\ PRunning(s, "send")
    /\ s \in Senders
    /\ cfg.cap = 0
    /\ ~chans[s + 1].closed
    /\ spc[s + 1] = "recv"
    /\ put' = [put EXCEPT ![s] = Append(@, hold[s])]
    /\ got' = [got EXCEPT ![s + 1] = Append(@, hold[s])]
    /\ hold' = [hold EXCEPT ![s] = 0, ![s + 1] = Held(s + 1, hold[s])]
    /\ spc' = [spc EXCEPT ![s] = AfterSend(s),
                          ![s + 1] = AfterRecv(s + 1, hold[s])]
    /\ UNCHANGED <<chans, ncl>>

\* a receive that takes the newest buffered value first
Stage_ReceiveNewest(s) ==
    /\ PRunning(s, "recv")
    /\ s \in Receivers
    /\ chans[s].buf # <<>>
    /\ LET v == chans[s].buf[Len(chans[s].buf)] IN
         /\ chans' = [chans EXCEPT ![s].buf = SubSeq(@, 1, Len(@) - 1)]
         /\ got' = [got EXCEPT ![s] = Append(@, v)]
         /\ hold' = [hold EXCEPT ![s] = Held(s, v)]
         /\ spc' = [spc EXCEPT ![s] = AfterRecv(s, v)]
    /\ UNCHANGED <<put, ncl>>

\* for data := range ch: the next buffered value, then the stage body
Stage_Receive(s) ==
    /\ PRunning(s, "recv")
    /\ s \in Receivers
    /\ chans[s].buf # <<>>
    /\ LET v == Head(chans[s].buf) IN
         /\ chans' = [chans EXCEPT ![s].buf = Tail(@)]
         /\ got' = [got EXCEPT ![s] = Append(@, v)]
         /\ hold' = [hold EXCEPT ![s] = Held(s, v)]
         /\ spc' = [spc EXCEPT ![s] = AfterRecv(s, v)]
    /\ UNCHANGED <<put, ncl>>

\* the range loop ends when the channel is closed and drained
Stage_InputClosed(s) ==
    /\ PRunning(s, "recv")
    /\ s \in Receivers
    /\ chans[s].buf = <<>>
    /\ chans[s].closed
    /\ spc' = [spc EXCEPT ![s] = IF s = Last THEN "done" ELSE "close"]
    /\ UNCHANGED <<chans, hold, got, put, ncl>>

\* a generator that closes its channel while values are still to be sent
Stage_CloseEarly(s) ==
    /\ ~crashed
    /\ s \in Senders
    /\ spc[s] \in {"close", "loop"}
    /\ ~chans[s + 1].closed
    /\ chans' = [chans EXCEPT ![s + 1].closed = TRUE]
    /\ ncl' = [ncl EXCEPT ![s + 1] = @ + 1]
    /\ spc' = [spc EXCEPT ![s] = IF @ = "close" THEN "done" ELSE @]
    /\ UNCHANGED <<notPipeline, cfg, hold, got, put>>

\* defer close(ch): closing a closed channel panics
Stage_Close(s) ==
    /\ PRunning(s, "close")
    /\ s \in Senders
    /\ IF chans[s + 1].closed
       THEN /\ spc' = [spc EXCEPT ![s] = "panicked"]
            /\ UNCHANGED <<chans, ncl>>
       ELSE /\ chans' = [chans EXCEPT ![s + 1].closed = TRUE]
            /\ ncl' = [ncl EXCEPT ![s + 1] = @ + 1]
            /\ spc' = [spc EXCEPT ![s] = "done"]
    /\ UNCHANGED <<hold, got, put>>

(***************************************************************************)
(* Fan-out / fan-in: a generator, a round-robin distributor, three workers *)
(* that forward into merged, and the fan-in goroutine that closes merged   *)
(* (08_csp.go:188-296)                                                     *)
(***************************************************************************)
Workers == 1 .. NumWorkers
InputCh == 0
MergedCh == NumWorkers + 1
MChans == 0 .. NumWorkers + 1
ChanCap(c) ==
    IF c = InputCh THEN InputCap
    ELSE IF c = MergedCh THEN MergedCap ELSE OutputCap

Gen == <<"gen", 0>>
FanOut == <<"fanout", 0>>
FanIn == <<"fanin", 0>>
Collector == <<"collect", 0>>
Worker(k) == <<"worker", k>>
Drainer(k) == <<"drain", k>>
MProcs ==
    {Gen, FanOut, FanIn, Collector}
    \cup {Worker(k) : k \in Workers} \cup {Drainer(k) : k \in Workers}

\* processed := data * 10, data * 100, data * 1000
Scale(k) == 10 ^ k

\* no fan-out / fan-in runs
InitNoMerge ==
    /\ mn = 0
    /\ mch = <<>>
    /\ mpc = <<>>
    /\ mhold = <<>>
    /\ mgen = 0
    /\ counter = 0
    /\ mwg = 0
    /\ dispatched = <<>>
    /\ collected = <<>>

\* the channels are made and every goroutine is started; the fan-in
\* goroutine has done wg.Add(3) and started its three range loops
InitMerge ==
    /\ mn \in 1 .. MergeItems
    /\ mch = [c \in MChans |-> EmptyChan]
    /\ mpc = [p \in MProcs |->
                IF p = Gen THEN "loop" ELSE IF p = FanIn THEN "wait" ELSE "recv"]
    /\ mhold = [p \in MProcs |-> 0]
    /\ mgen = 0
    /\ counter = 0
    /\ mwg = NumWorkers
    /\ dispatched = [k \in Workers |-> <<>>]
    /\ collected = <<>>

MRunning(p, at) ==
    /\ ~crashed
    /\ p \in DOMAIN mpc
    /\ mpc[p] = at
    /\ UNCHANGED <<notMerge, mn>>

MGoto(p, to) == mpc' = [mpc EXCEPT ![p] = to]

\* for i := 1; i <= 15; i++
MGen_Next ==
    /\ MRunning(Gen, "loop")
    /\ MGoto(Gen, IF mgen < mn THEN "send" ELSE "close")
    /\ UNCHANGED <<mch, mhold, mgen, counter, mwg, dispatched, collected>>

\* input <- i
MGen_Send ==
    /\ MRunning(Gen, "send")
    /\ Len(mch[InputCh].buf) < ChanCap(InputCh)
    /\ mch' = [mch EXCEPT ![InputCh].buf = Append(@, mgen + 1)]
    /\ mgen' = mgen + 1
    /\ MGoto(Gen, "loop")
    /\ UNCHANGED <<mhold, counter, mwg, dispatched, collected>>

\* defer close(input)
MGen_Close ==
    /\ MRunning(Gen, "close")
    /\ mch' = [mch EXCEPT ![InputCh].closed = TRUE]
    /\ MGoto(Gen, "done")
    /\ UNCHANGED <<mhold, mgen, counter, mwg, dispatched, collected>>

\* for data := range input
FanOut_Receive ==
    /\ MRunning(FanOut, "recv")
    /\ mch[InputCh].buf # <<>>
    /\ mhold' = [mhold EXCEPT ![FanOut] = Head(mch[InputCh].buf)]
    /\ mch' = [mch EXCEPT ![InputCh].buf = Tail(@)]
    /\ MGoto(FanOut, "send")
    /\ UNCHANGED <<mgen, counter, mwg, dispatched, collected>>

\* switch counter % 3 { case 0: output1 <- data ... }; counter++
FanOut_Send ==
    /\ MRunning(FanOut, "send")
    /\ LET k == (counter % NumWorkers) + 1 IN
         /\ Len(mch[k].buf) < ChanCap(k)
         /\ mch' = [mch EXCEPT ![k].buf = Append(@, mhold[FanOut])]
         /\ dispatched' = [dispatched EXCEPT ![k] = Append(@, mhold[FanOut])]
    /\ counter' = counter + 1
    /\ mhold' = [mhold EXCEPT ![FanOut] = 0]
    /\ MGoto(FanOut, "recv")
    /\ UNCHANGED <<mgen, mwg, collected>>

\* the range over input ends; the deferred closes run in reverse order
FanOut_InputClosed ==
    /\ MRunning(FanOut, "recv")
    /\ mch[InputCh].buf = <<>>
    /\ mch[InputCh].closed
    /\ MGoto(FanOut, "close")
    /\ counter' = NumWorkers
    /\ UNCHANGED <<mch, mhold, mgen, mwg, dispatched, collected>>

\* defer close(output3); defer close(output2); defer close(output1)
FanOut_Close ==
    /\ MRunning(FanOut, "close")
    /\ mch' = [mch EXCEPT ![counter].closed = TRUE]
    /\ counter' = counter - 1
    /\ MGoto(FanOut, IF counter = 1 THEN "done" ELSE "close")
    /\ UNCHANGED <<mhold, mgen, mwg, dispatched, collected>>

\* worker k: for data := range outputk { processed := data * 10^k
Worker_Receive(k) ==
    /\ MRunning(Worker(k), "recv")
    /\ mch[k].buf # <<>>
    /\ mhold' = [mhold EXCEPT ![Worker(k)] = Head(mch[k].buf) * Scale(k)]
    /\ mch' = [mch EXCEPT ![k].buf = Tail(@)]
    /\ MGoto(Worker(k), "send")
    /\ UNCHANGED <<mgen, counter, mwg, dispatched, collected>>

\* merged <- processed: a send on a closed channel panics
Worker_Send(k) ==
    /\ MRunning(Worker(k), "send")
    /\ IF mch[MergedCh].closed
       THEN /\ MGoto(Worker(k), "panicked")
            /\ UNCHANGED <<mch, mhold>>
       ELSE /\ Len(mch[MergedCh].buf) < ChanCap(MergedCh)
            /\ mch' = [mch EXCEPT ![MergedCh].buf = Append(@, mhold[Worker(k)])]
            /\ mhold' = [mhold EXCEPT ![Worker(k)] = 0]
            /\ MGoto(Worker(k), "recv")
    /\ UNCHANGED <<mgen, counter, mwg, dispatched, collected>>

\* the worker's range loop ends and the goroutine returns
Worker_InputClosed(k) ==
    /\ MRunning(Worker(k), "recv")
    /\ mch[k].buf = <<>>
    /\ mch[k].closed
    /\ MGoto(Worker(k), "done")
    /\ UNCHANGED <<mch, mhold, mgen, counter, mwg, dispatched, collected>>

\* fan-in: for range outputk { } takes a value off outputk and drops it
Drain_Receive(k) ==
    /\ MRunning(Drainer(k), "recv")
    /\ mch[k].buf # <<>>
    /\ mch' = [mch EXCEPT ![k].buf = Tail(@)]
    /\ UNCHANGED <<mpc, mhold, mgen, counter, mwg, dispatched, collected>>

\* the range over outputk ends; defer wg.Done()
Drain_InputClosed(k) ==
    /\ MRunning(Drainer(k), "recv")
    /\ mch[k].buf = <<>>
    /\ mch[k].closed
    /\ mwg' = mwg - 1
    /\ MGoto(Drainer(k), "done")
    /\ UNCHANGED <<mch, mhold, mgen, counter, dispatched, collected>>

\* wg.Wait()
FanIn_Wait ==
    /\ MRunning(FanIn, "wait")
    /\ mwg = 0
    /\ MGoto(FanIn, "close")
    /\ UNCHANGED <<mch, mhold, mgen, counter, mwg, dispatched, collected>>

\* defer close(merged)
FanIn_Close ==
    /\ MRunning(FanIn, "close")
    /\ mch' = [mch EXCEPT ![MergedCh].closed = TRUE]
    /\ MGoto(FanIn, "done")
    /\ UNCHANGED <<mhold, mgen, counter, mwg, dispatched, collected>>

\* for result := range merged
Collect_Receive ==
    /\ MRunning(Collector, "recv")
    /\ mch[MergedCh].buf # <<>>
    /\ collected' = Append(collected, Head(mch[MergedCh].buf))
    /\ mch' = [mch EXCEPT ![MergedCh].buf = Tail(@)]
    /\ UNCHANGED <<mpc, mhold, mgen, counter, mwg, dispatched>>

Collect_Closed ==
    /\ MRunning(Collector, "recv")
    /\ mch[MergedCh].buf = <<>>
    /\ mch[MergedCh].closed
    /\ MGoto(Collector, "done")
    /\ UNCHANGED <<mch, mhold, mgen, counter, mwg, dispatched, collected>>

(***************************************************************************)
(* Observable: NewObservable, Subscribe, Emit, Close, and Subject          *)
(* (03_reflection/README.md:1343-1429)                                     *)
(***************************************************************************)
\* the goroutine that emits, the goroutine that subscribes, and a third one
Emitter == 1
Subscriber == 2
Closer == 3
OTasks == {Emitter, Subscriber, Closer}

NewObservable ==
    /\ observers = <<>>
    /\ oclosed = FALSE
    /\ omu = [writer |-> NoTask, readers |-> {}]

InitObservable ==
    /\ NewObservable
    /\ och = <<>>
    /\ opc = [t \in OTasks |-> "idle"]
    /\ oval = [t \in OTasks |-> 0]
    /\ oidx = [t \in OTasks |-> 0]
    /\ oret = [t \in OTasks |-> "none"]
    /\ nemit = 0
    /\ nclose = 0
    /\ received = <<>>
    /\ dropped = <<>>
    /\ ocl = <<>>
    /\ sdone = <<>>

ORunning(t, at) ==
    /\ ~crashed
    /\ opc[t] = at
    /\ UNCHANGED notObservable

\* Subscribe: o.mu.Lock(); if o.closed { return nil }; ch := make(chan, 10);
\* o.observers = append(o.observers, ch); return ch; deferred o.mu.Unlock().
\* The write lock is held from the first statement to the return.
Subscribe(t) ==
    /\ ORunning(t, "idle")
    /\ omu.writer = NoTask /\ omu.readers = {}
    /\ IF oclosed
       THEN /\ oret' = [oret EXCEPT ![t] = "nil"]
            /\ UNCHANGED <<observers, och, received, dropped, ocl, sdone>>
       ELSE /\ och' = Append(och, EmptyChan)
            /\ observers' = Append(observers, Len(och) + 1)
            /\ received' = Append(received, <<>>)
            /\ dropped' = Append(dropped, <<>>)
            /\ ocl' = Append(ocl, 0)
            /\ sdone' = Append(sdone, FALSE)
            /\ oret' = [oret EXCEPT ![t] = "channel"]
    /\ UNCHANGED <<oclosed, omu, opc, oval, oidx, nemit, nclose>>

\* Emit: o.mu.RLock(); if o.closed { return } (with the deferred RUnlock)
Emit_RLock(t, data) ==
    /\ ORunning(t, "idle")
    /\ omu.writer = NoTask
    /\ nemit' = nemit + 1
    /\ IF oclosed
       THEN /\ oret' = [oret EXCEPT ![t] = "ignored"]
            /\ UNCHANGED <<omu, opc, oval, oidx>>
       ELSE /\ omu' = [omu EXCEPT !.readers = @ \cup {t}]
            /\ opc' = [opc EXCEPT ![t] = "emit"]
            /\ oval' = [oval EXCEPT ![t] = data]
            /\ oidx' = [oidx EXCEPT ![t] = 1]
            /\ UNCHANGED oret
    /\ UNCHANGED <<observers, oclosed, och, nclose, received, dropped, ocl,
                   sdone>>

\* an Emit that waits for room in the subscriber's buffer
Emit_SendBlocking(t) ==
    /\ ORunning(t, "emit")
    /\ oidx[t] <= Len(observers)
    /\ LET c == observers[oidx[t]] IN
         /\ ~och[c].closed
         /\ Len(och[c].buf) < SubCap
         /\ och' = [och EXCEPT ![c].buf = Append(@, oval[t])]
         /\ oidx' = [oidx EXCEPT ![t] = @ + 1]
         /\ UNCHANGED opc
    /\ UNCHANGED <<observers, oclosed, omu, oval, oret, nemit, nclose,
                   received, dropped, ocl, sdone>>

\* for _, observer := range o.observers {
\*     select { case observer <- data: default: } }
\* a send on a closed channel panics
Emit_Send(t) ==
    /\ ORunning(t, "emit")
    /\ oidx[t] <= Len(observers)
    /\ LET c == observers[oidx[t]] IN
         IF och[c].closed
         THEN /\ opc' = [opc EXCEPT ![t] = "panicked"]
              /\ UNCHANGED <<och, oidx, dropped>>
         ELSE /\ och' = [och EXCEPT ![c].buf =
                           IF Len(@) < SubCap THEN Append(@, oval[t]) ELSE @]
              /\ dropped' = [dropped EXCEPT ![c] =
                               IF Len(och[c].buf) < SubCap
                               THEN @ ELSE Append(@, oval[t])]
              /\ oidx' = [oidx EXCEPT ![t] = @ + 1]
              /\ UNCHANGED opc
    /\ UNCHANGED <<observers, oclosed, omu, oval, oret, nemit, nclose,
                   received, ocl, sdone>>

\* the range loop is over: return, and the deferred o.mu.RUnlock()
Emit_Return(t) ==
    /\ ORunning(t, "emit")
    /\ oidx[t] > Len(observers)
    /\ omu' = [omu EXCEPT !.readers = @ \ {t}]
    /\ opc' = [opc EXCEPT ![t] = "idle"]
    /\ oret' = [oret EXCEPT ![t] = "emitted"]
    /\ UNCHANGED <<observers, oclosed, och, oval, oidx, nemit, nclose,
                   received, dropped, ocl, sdone>>

\* Close: o.mu.Lock(); o.closed = true
Close_Lock(t) ==
    /\ ORunning(t, "idle")
    /\ omu.writer = NoTask /\ omu.readers = {}
    /\ omu' = [omu EXCEPT !.writer = t]
    /\ oclosed' = TRUE
    /\ nclose' = nclose + 1
    /\ opc' = [opc EXCEPT ![t] = "close"]
    /\ oidx' = [oidx EXCEPT ![t] = 1]
    /\ UNCHANGED <<observers, och, oval, oret, nemit, received, dropped, ocl,
                   sdone>>

\* for _, observer := range o.observers { close(observer) }
\* closing a closed channel panics; the deferred Unlock runs
Close_CloseOne(t) ==
    /\ ORunning(t, "close")
    /\ oidx[t] <= Len(observers)
    /\ LET c == observers[oidx[t]] IN
         IF och[c].closed
         THEN /\ opc' = [opc EXCEPT ![t] = "panicked"]
              /\ omu' = [omu EXCEPT !.writer = NoTask]
              /\ UNCHANGED <<och, oidx, ocl>>
         ELSE /\ och' = [och EXCEPT ![c].closed = TRUE]
              /\ ocl' = [ocl EXCEPT ![c] = @ + 1]
              /\ oidx' = [oidx EXCEPT ![t] = @ + 1]
              /\ UNCHANGED <<opc, omu>>
    /\ UNCHANGED <<observers, oclosed, oval, oret, nemit, nclose, received,
                   dropped, sdone>>

\* a Close that keeps the list of the channels it has closed
Close_KeepObservers(t) ==
    /\ ORunning(t, "close")
    /\ oidx[t] > Len(observers)
    /\ omu' = [omu EXCEPT !.writer = NoTask]
    /\ opc' = [opc EXCEPT ![t] = "idle"]
    /\ oret' = [oret EXCEPT ![t] = "closed"]
    /\ UNCHANGED <<observers, oclosed, och, oval, oidx, nemit, nclose,
                   received, dropped, ocl, sdone>>

\* o.observers = nil; return, and the deferred o.mu.Unlock()
Close_Unlock(t) ==
    /\ ORunning(t, "close")
    /\ oidx[t] > Len(observers)
    /\ observers' = <<>>
    /\ omu' = [omu EXCEPT !.writer = NoTask]
    /\ opc' = [opc EXCEPT ![t] = "idle"]
    /\ oret' = [oret EXCEPT ![t] = "closed"]
    /\ UNCHANGED <<oclosed, och, oval, oidx, nemit, nclose, received,
                   dropped, ocl, sdone>>

\* a subscriber that reads the oldest value and leaves it in the buffer
Sub_ReceiveKeep(c) ==
    /\ ~crashed
    /\ c \in DOMAIN och
    /\ och[c].buf # <<>>
    /\ Len(received[c]) < SubCap
    /\ received' = [received EXCEPT ![c] = Append(@, Head(och[c].buf))]
    /\ UNCHANGED <<notObservable, observers, oclosed, omu, och, opc, oval,
                   oidx, oret, nemit, nclose, dropped, ocl, sdone>>

\* a subscriber goroutine: for data := range ch
Sub_Receive(c) ==
    /\ ~crashed
    /\ c \in DOMAIN och
    /\ och[c].buf # <<>>
    /\ received' = [received EXCEPT ![c] = Append(@, Head(och[c].buf))]
    /\ och' = [och EXCEPT ![c].buf = Tail(@)]
    /\ UNCHANGED <<notObservable, observers, oclosed, omu, opc, oval, oidx,
                   oret, nemit, nclose, dropped, ocl, sdone>>

\* the subscriber's range loop ends: the channel is closed and drained
Sub_Closed(c) ==
    /\ ~crashed
    /\ c \in DOMAIN och
    /\ ~sdone[c]
    /\ och[c].buf = <<>>
    /\ och[c].closed
    /\ sdone' = [sdone EXCEPT ![c] = TRUE]
    /\ UNCHANGED <<notObservable, observers, oclosed, omu, och, opc, oval,
                   oidx, oret, nemit, nclose, received, dropped, ocl>>

(***************************************************************************)
(* Subject: Next, Complete (03_reflection/README.md:1401-1429)             *)
(***************************************************************************)
\* func (s *Subject) Next(value interface{}) { s.Emit(value) }
Subject_Next(t, value) == Emit_RLock(t, value)

\* Complete: s.Emit("COMPLETE"), then s.Close()
Complete_Emit(t) == Emit_RLock(t, "COMPLETE")
Complete_Close(t) == Close_Lock(t)

(***************************************************************************)
(* A chain of Futures: goroutine 1 assigns the first Future; goroutine i   *)
(* calls Get on Future i-1 and then SetError(err) or SetResult on Future   *)
(* i; the caller calls Get on the last one (09_future.go:245-290, 428-502) *)
(***************************************************************************)
ChainFutures == 1 .. cn
\* the goroutine that waits for the last Future
ChainCaller == cn + 1
NewChainFuture ==
    [result |-> Nil, err |-> Nil, done |-> FALSE, writer |-> FALSE,
     readers |-> 0]
NoLocal == [v |-> Nil, e |-> Nil]

\* userInfo := fmt.Sprintf("User info: ID=%v, ...", userID): the result of a
\* step is built from the result of the step before
Derive(i, v) == v * 10 + i

\* no chain runs
InitNoChain ==
    /\ cn = 0
    /\ cfut = <<>>
    /\ cpc = <<>>
    /\ cloc = <<>>
    /\ cwrites = <<>>
    /\ ccloses = <<>>

\* the Futures are made and the goroutines started
InitChain ==
    /\ cn \in 2 .. MaxChain
    /\ cfut = [i \in 1 .. cn |-> NewChainFuture]
    /\ cpc = [i \in 1 .. cn + 1 |-> IF i = 1 THEN "start" ELSE "g_wait"]
    /\ cloc = [i \in 1 .. cn + 1 |-> NoLocal]
    /\ cwrites = [i \in 1 .. cn |-> 0]
    /\ ccloses = [i \in 1 .. cn |-> 0]

CRunning(i, at) ==
    /\ ~crashed
    /\ i \in DOMAIN cpc
    /\ cpc[i] = at
    /\ UNCHANGED <<notChain, cn>>

CGoto(i, to) == cpc' = [cpc EXCEPT ![i] = to]

\* the first goroutine: userIDFuture.SetResult(12345), or a failing first
\* step that calls SetError
Chain_First ==
    /\ CRunning(1, "start")
    /\ \/ \E v \in Values :
            /\ cloc' = [cloc EXCEPT ![1] = [v |-> v, e |-> Nil]]
            /\ CGoto(1, "sr_lock")
       \/ \E e \in Errors :
            /\ cloc' = [cloc EXCEPT ![1] = [v |-> Nil, e |-> e]]
            /\ CGoto(1, "se_lock")
    /\ UNCHANGED <<cfut, cwrites, ccloses>>

\* upstream.Get(): <-f.done
Chain_GetWait(i) ==
    /\ CRunning(i, "g_wait")
    /\ cfut[i - 1].done
    /\ CGoto(i, "g_rlock")
    /\ UNCHANGED <<cfut, cloc, cwrites, ccloses>>

\* f.mu.RLock()
Chain_GetRLock(i) ==
    /\ CRunning(i, "g_rlock")
    /\ ~cfut[i - 1].writer
    /\ cfut' = [cfut EXCEPT ![i - 1].readers = @ + 1]
    /\ CGoto(i, "g_ret")
    /\ UNCHANGED <<cloc, cwrites, ccloses>>

\* return f.result, f.err, and the deferred f.mu.RUnlock()
Chain_GetReturn(i) ==
    /\ CRunning(i, "g_ret")
    /\ cloc' = [cloc EXCEPT ![i] =
                  [v |-> cfut[i - 1].result, e |-> cfut[i - 1].err]]
    /\ cfut' = [cfut EXCEPT ![i - 1].readers = @ - 1]
    /\ CGoto(i, IF i = ChainCaller THEN "done" ELSE "branch")
    /\ UNCHANGED <<cwrites, ccloses>>

\* a step that answers an upstream error with a result of its own
Chain_BranchSwallow(i) ==
    /\ CRunning(i, "branch")
    /\ cloc' = [cloc EXCEPT ![i] = [v |-> Derive(i, @.v), e |-> Nil]]
    /\ CGoto(i, "sr_lock")
    /\ UNCHANGED <<cfut, cwrites, ccloses>>

\* if err != nil { next.SetError(err); return }; ...; next.SetResult(...)
Chain_Branch(i) ==
    /\ CRunning(i, "branch")
    /\ IF cloc[i].e # Nil
       THEN /\ CGoto(i, "se_lock")
            /\ UNCHANGED cloc
       ELSE /\ cloc' = [cloc EXCEPT ![i].v = Derive(i, @)]
            /\ CGoto(i, "sr_lock")
    /\ UNCHANGED <<cfut, cwrites, ccloses>>

\* SetResult / SetError: f.mu.Lock()
Chain_Lock(i) ==
    /\ ~crashed
    /\ i \in DOMAIN cfut
    /\ cpc[i] \in {"sr_lock", "se_lock"}
    /\ ~cfut[i].writer /\ cfut[i].readers = 0
    /\ cfut' = [cfut EXCEPT ![i].writer = TRUE]
    /\ CGoto(i, IF cpc[i] = "sr_lock" THEN "sr_write" ELSE "se_write")
    /\ UNCHANGED <<notChain, cn, cloc, cwrites, ccloses>>

\* f.result = result, or f.err = err
Chain_Write(i) ==
    /\ ~crashed
    /\ i \in DOMAIN cfut
    /\ cpc[i] \in {"sr_write", "se_write"}
    /\ cfut' = [cfut EXCEPT ![i] =
                  IF cpc[i] = "sr_write"
                  THEN [@ EXCEPT !.result = cloc[i].v]
                  ELSE [@ EXCEPT !.err = cloc[i].e]]
    /\ cwrites' = [cwrites EXCEPT ![i] = @ + 1]
    /\ CGoto(i, "close")
    /\ UNCHANGED <<notChain, cn, cloc, ccloses>>

\* close(f.done): closing a closed channel panics
Chain_Close(i) ==
    /\ CRunning(i, "close")
    /\ IF cfut[i].done
       THEN /\ CGoto(i, "panicked")
            /\ cfut' = [cfut EXCEPT ![i].writer = FALSE]
            /\ UNCHANGED ccloses
       ELSE /\ cfut' = [cfut EXCEPT ![i].done = TRUE]
            /\ ccloses' = [ccloses EXCEPT ![i] = @ + 1]
            /\ CGoto(i, "unlock")
    /\ UNCHANGED <<cloc, cwrites>>

\* the deferred f.mu.Unlock(); the goroutine returns
Chain_Unlock(i) ==
    /\ CRunning(i, "unlock")
    /\ cfut' = [cfut EXCEPT ![i].writer = FALSE]
    /\ CGoto(i, "done")
    /\ UNCHANGED <<cloc, cwrites, ccloses>>

\* a panic nobody recovers ends the process (Go runtime)
ProcessExit ==
    /\ ~crashed
    /\ \/ \E t \in FTasks : fpc[t] = "panicked"
       \/ \E t \in ATasks : apc[t] = "panicked"
       \/ \E i \in Loops : lpc[i] = "panicked"
       \/ \E p \in DOMAIN mpc : mpc[p] = "panicked"
       \/ \E t \in OTasks : opc[t] = "panicked"
       \/ \E g \in DOMAIN epc : epc[g] = "panicked"
    /\ crashed' = TRUE
    /\ UNCHANGED <<fvars, avars, xvars>>

(***************************************************************************)
(* Specifications                                                          *)
(***************************************************************************)
\* the keys of StatefulActor.state that the drivers use
Keys == {"name", "age"}

\* no stateful actor exists
InitNoStateful ==
    /\ script = << >>
    /\ state = [k \in Keys |-> Nil]
    /\ respch = << >>
    /\ sgot = << >>

\* stage1, stage2, stage3
NumStages == 3
Stages == 1 .. NumStages

\* PipelineMessage{Data, Stage}: Data is the item with the stages that have
\* processed it, the latest first; StopMessage{}
PipelineMessage(d, by, k) ==
    [type |-> "pipeline", item |-> d, by |-> by, stage |-> k]
StopMessage == [type |-> "stop", item |-> 0, by |-> << >>, stage |-> 0]

\* NewActor for each stage, none started; the driver sends n items
NewStages(n) ==
    /\ gn = n
    /\ gmail = [s \in Stages |-> << >>]
    /\ gstop = [s \in Stages |-> FALSE]
    /\ gwg = [s \in Stages |-> 0]
    /\ glpc = [s \in Stages |-> "none"]
    /\ glmsg = [s \in Stages |-> StopMessage]
    /\ dpc = 0
    /\ dwait = FALSE
    /\ ghandled = [s \in Stages |-> << >>]

\* no actor pipeline is run
InitNoStages == NewStages(0)

\* none of the remaining examples is run
InitNoExample ==
    /\ ech = << >>
    /\ eclosed = {}
    /\ epc = << >>
    /\ eloc = << >>
    /\ ewg = << >>
    /\ emem = << >>
    /\ ehist = << >>
    /\ eprog = << >>
    /\ ehandlers = << >>

Init ==
    /\ InitFuture /\ InitActor /\ InitNoPipeline /\ InitNoMerge
    /\ InitObservable /\ InitNoChain /\ InitNoStateful
    /\ InitNoStages /\ InitNoExample

\* one Future used by NumTasks goroutines
FutureNext ==
    \/ \E t \in FTasks :
         \/ CallSetResult(t) \/ CallSetError(t) \/ CallGet(t)
         \/ CallGetWithTimeout(t) \/ CallIsDone(t)
         \/ SetResult_Lock(t) \/ SetResult_Write(t) \/ SetResult_Close(t)
         \/ SetResult_Unlock(t)
         \/ SetError_Lock(t) \/ SetError_Write(t) \/ SetError_Close(t)
         \/ SetError_Unlock(t)
         \/ Get_Wait(t) \/ Get_RLock(t) \/ Get_Return(t)
         \/ GetWithTimeout_Done(t) \/ GetWithTimeout_RLock(t)
         \/ GetWithTimeout_Return(t) \/ GetWithTimeout_Timeout(t)
    \/ ProcessExit

SpecFuture == Init /\ [][FutureNext]_vars

\* one Actor used by NumCallers goroutines
ActorNext ==
    \/ \E t \in ATasks :
         \/ AnyStart(t) \/ AnyStop(t) \/ AnySend(t)
         \/ Send_Enqueue(t) \/ Start_Add(t) \/ Start_Go(t)
         \/ Stop_Close(t) \/ Stop_Wait(t)
    \/ \E i \in Loops :
         \/ Loop_Receive(i) \/ Loop_Dispatch(i) \/ Loop_HandlerReturn(i)
         \/ Loop_Stop(i)
    \/ ProcessExit

SpecActor == Init /\ [][ActorNext]_vars

\* the same Actor with handlers that may panic
HandlersNext ==
    \/ ActorNext
    \/ \E i \in Loops : Loop_HandlerPanic(i)

SpecHandlers == Init /\ [][HandlersNext]_vars

(***************************************************************************)
(* futureTimeoutExample (09_future.go:213-242): one goroutine produces     *)
(* the result, every other goroutine calls GetWithTimeout and, when that   *)
(* times out, Get                                                          *)
(***************************************************************************)
Producer == 1
Consumers == FTasks \ {Producer}

\* future.SetResult("Long-running task completed")
TE_Produce ==
    /\ fcalls[Producer] = 0
    /\ \E v \in Values : FCall(Producer, "sr_lock", v)

\* result, err := future.GetWithTimeout(1 * time.Second)
TE_GetWithTimeout(t) ==
    /\ fcalls[t] = 0
    /\ FCall(t, "gt_select", Nil)

\* if err != nil { result, err = future.Get() }
TE_Get(t) ==
    /\ fcalls[t] = 1
    /\ fret[t].kind = "timeout"
    /\ FCall(t, "g_wait", Nil)

TimeoutNext ==
    \/ TE_Produce
    \/ SetResult_Lock(Producer) \/ SetResult_Write(Producer)
    \/ SetResult_Close(Producer) \/ SetResult_Unlock(Producer)
    \/ \E t \in Consumers :
         \/ TE_GetWithTimeout(t) \/ TE_Get(t)
         \/ GetWithTimeout_Done(t) \/ GetWithTimeout_RLock(t)
         \/ GetWithTimeout_Return(t) \/ GetWithTimeout_Timeout(t)
         \/ Get_Wait(t) \/ Get_RLock(t) \/ Get_Return(t)

SpecTimeout == Init /\ [][TimeoutNext]_vars

(***************************************************************************)
(* Scenario A, the first half of basicActorExample (07_actor.go:231-257):  *)
(* Start, three Sends, then Stop, all by one caller                        *)
(***************************************************************************)
Driver == 1
\* two string messages and one number message, in any order
ScenarioAQuota == [string |-> 2, number |-> 1]
NumSent(type) == Len(SelectSeq(sent, LAMBDA m : m.type = type))

\* actor.Start()
SA_Start == nStart = 0 /\ CallStart(Driver)

\* actor.Send(StringMessage{...}); actor.Send(NumberMessage{...}); ...
SA_Send ==
    /\ nStart = 1
    /\ \E type \in DOMAIN ScenarioAQuota :
         /\ NumSent(type) < ScenarioAQuota[type]
         /\ CallSend(Driver, type)

\* actor.Stop()
SA_Stop == aseq[Driver] = 3 /\ nStop = 0 /\ CallStop(Driver)

ScenarioANext ==
    \/ SA_Start \/ SA_Send \/ SA_Stop
    \/ Start_Add(Driver) \/ Start_Go(Driver) \/ Send_Enqueue(Driver)
    \/ Stop_Close(Driver) \/ Stop_Wait(Driver)
    \/ \E i \in Loops :
         \/ Loop_Receive(i) \/ Loop_Dispatch(i) \/ Loop_HandlerReturn(i)
         \/ Loop_Stop(i)

SpecScenarioA == Init /\ [][ScenarioANext]_vars

(***************************************************************************)
(* basicActorExample in full (07_actor.go:227-263): Start, three Sends,    *)
(* Send(StopMessage{}), Stop, with the "stop" handler calling Stop too     *)
(***************************************************************************)
BasicMessages == <<"string", "number", "string", "stop">>

BA_Start == nStart = 0 /\ CallStart(Driver)

BA_Send ==
    /\ nStart = 1
    /\ aseq[Driver] < Len(BasicMessages)
    /\ CallSend(Driver, BasicMessages[aseq[Driver] + 1])

BA_Stop == aseq[Driver] = Len(BasicMessages) /\ nStop = 0 /\ CallStop(Driver)

BasicActorNext ==
    \/ BA_Start \/ BA_Send \/ BA_Stop
    \/ Start_Add(Driver) \/ Start_Go(Driver) \/ Send_Enqueue(Driver)
    \/ Stop_Close(Driver) \/ Stop_Wait(Driver)
    \/ \E i \in Loops :
         \/ Loop_Receive(i) \/ Loop_Dispatch(i) \/ Loop_HandlerReturn(i)
         \/ Handler_Stop(i) \/ Loop_Stop(i)
    \/ ProcessExit

BasicActorInit ==
    /\ InitFuture /\ InitBasicActor /\ InitNoPipeline /\ InitNoMerge
    /\ InitObservable /\ InitNoChain /\ InitNoStateful
    /\ InitNoStages /\ InitNoExample

SpecBasicActor == BasicActorInit /\ [][BasicActorNext]_vars

(***************************************************************************)
(* statefulActorExample (07_actor.go:403-462): an actor whose "set"        *)
(* handler writes a map and whose "get" handler answers on the Response    *)
(* channel of the message; one driver sends the messages and reads each    *)
(* response before it goes on.  Only the dispatch goroutine touches the    *)
(* map, so StatefulActor.mu is never contended and is left out.            *)
(***************************************************************************)
\* SetMessage{Key, Value} and GetMessage{Key, Response: responseChan}
SetMessage(k, v) == [op |-> "set", key |-> k, value |-> v]
GetMessage(k) == [op |-> "get", key |-> k, value |-> Nil]

\* the drivers considered: every sequence of at most MaxScript Sets and Gets
Scripts ==
    UNION {[1 .. n -> {SetMessage(k, v) : k \in Keys, v \in Values}
                        \cup {GetMessage(k) : k \in Keys}] :
             n \in 1 .. MaxScript}

\* make(chan interface{}, 1)
RespCap == 1

\* state: make(map[string]interface{}), with the "set" and "get" handlers
InitStateful ==
    /\ InitActorState
    /\ handlers = RegisterHandler(RegisterHandler({}, "set"), "get")
    /\ script \in Scripts
    /\ state = [k \in Keys |-> Nil]
    /\ respch = << >>
    /\ sgot = << >>

\* the Set or Get the message m of the driver carries
Payload(m) == script[m.seq]

\* the "set" handler that keeps the value a key already has
Handler_SetIfAbsent(i) ==
    /\ ~crashed /\ UNCHANGED notActor
    /\ lpc[i] = "handle"
    /\ lmsg[i].type = "set"
    /\ state' = IF state[Payload(lmsg[i]).key] = Nil
                THEN [state EXCEPT ![Payload(lmsg[i]).key] =
                                      Payload(lmsg[i]).value]
                ELSE state
    /\ lpc' = [lpc EXCEPT ![i] = "select"]
    /\ lmsg' = [lmsg EXCEPT ![i] = NoMsg]
    /\ UNCHANGED <<mailbox, handlers, wg, stop, nloops, apc, amsg, aret,
                   aseq, nStart, nStop, sent, taken, handled, joined, late,
                   running, crashed, script, respch, sgot>>

\* the "set" handler: stateActor.state[setMsg.Key] = setMsg.Value, and the
\* handler returns to the loop
Handler_Set(i) ==
    /\ ~crashed /\ UNCHANGED notActor
    /\ lpc[i] = "handle"
    /\ lmsg[i].type = "set"
    /\ state' = [state EXCEPT ![Payload(lmsg[i]).key] =
                                 Payload(lmsg[i]).value]
    /\ lpc' = [lpc EXCEPT ![i] = "select"]
    /\ lmsg' = [lmsg EXCEPT ![i] = NoMsg]
    /\ UNCHANGED <<mailbox, handlers, wg, stop, nloops, apc, amsg, aret,
                   aseq, nStart, nStop, sent, taken, handled, joined, late,
                   running, crashed, script, respch, sgot>>

\* the "get" handler: value, exists := state[Key]; Response <- value when
\* the key exists and Response <- nil when it does not; the send waits for
\* room in the channel, and the handler returns to the loop
Handler_Get(i) ==
    /\ ~crashed /\ UNCHANGED notActor
    /\ lpc[i] = "handle"
    /\ lmsg[i].type = "get"
    /\ Len(respch) < RespCap
    /\ respch' = Append(respch, state[Payload(lmsg[i]).key])
    /\ lpc' = [lpc EXCEPT ![i] = "select"]
    /\ lmsg' = [lmsg EXCEPT ![i] = NoMsg]
    /\ UNCHANGED <<mailbox, handlers, wg, stop, nloops, apc, amsg, aret,
                   aseq, nStart, nStop, sent, taken, handled, joined, late,
                   running, crashed, script, state, sgot>>

\* the number of Gets among the first n messages of the script
RECURSIVE Gets(_)
Gets(n) ==
    IF n = 0 THEN 0
    ELSE Gets(n - 1) + (IF n <= Len(script) /\ script[n].op = "get"
                        THEN 1 ELSE 0)

\* the driver has read the response of every Get it has sent
Answered == Len(sgot) = Gets(aseq[Driver])

\* stateActor.Start()
KV_Start == nStart = 0 /\ CallStart(Driver)

\* stateActor.Send(SetMessage{...}) / stateActor.Send(GetMessage{...})
KV_Send ==
    /\ nStart = 1
    /\ aseq[Driver] < Len(script)
    /\ Answered
    /\ CallSend(Driver, script[aseq[Driver] + 1].op)

\* value := <-responseChan
KV_Receive ==
    /\ ~crashed /\ UNCHANGED notActor
    /\ apc[Driver] = "idle"
    /\ ~Answered
    /\ respch # << >>
    /\ sgot' = Append(sgot, Head(respch))
    /\ respch' = Tail(respch)
    /\ UNCHANGED <<avars, crashed, script, state>>

\* stateActor.Send(StopMessage{}): no "stop" handler is registered here
KV_SendStop ==
    /\ nStart = 1
    /\ aseq[Driver] = Len(script)
    /\ Answered
    /\ CallSend(Driver, "stop")

\* stateActor.Stop()
KV_Stop == aseq[Driver] = Len(script) + 1 /\ nStop = 0 /\ CallStop(Driver)

StatefulNext ==
    \/ KV_Start \/ KV_Send \/ KV_Receive \/ KV_SendStop \/ KV_Stop
    \/ Start_Add(Driver) \/ Start_Go(Driver) \/ Send_Enqueue(Driver)
    \/ Stop_Close(Driver) \/ Stop_Wait(Driver)
    \/ \E i \in Loops :
         \/ Loop_Receive(i) \/ Loop_Dispatch(i)
         \/ Handler_Set(i) \/ Handler_Get(i) \/ Loop_Stop(i)

StatefulInit ==
    /\ InitFuture /\ InitStateful /\ InitNoPipeline /\ InitNoMerge
    /\ InitObservable /\ InitNoChain /\ InitNoStages /\ InitNoExample

SpecStateful == StatefulInit /\ [][StatefulNext]_vars

(***************************************************************************)
(* pipelineActorExample (07_actor.go:517-570): three actors, the           *)
(* "pipeline" handler of stage1 sends to stage2 and that of stage2 sends   *)
(* to stage3; the driver starts the three, sends the items to stage1,      *)
(* sends a StopMessage to each and stops each                              *)
(***************************************************************************)
InitStages == \E n \in 1 .. MaxData : NewStages(n)

\* the calls of the driver, in program order
Program ==
    [s \in Stages |-> [call |-> "Start", arg |-> s]]
    \o [d \in 1 .. gn |-> [call |-> "Send", arg |-> d]]
    \o [s \in Stages |-> [call |-> "SendStop", arg |-> s]]
    \o [s \in Stages |-> [call |-> "Stop", arg |-> s]]

\* the driver is about to make the call `call` on stage s or with item s
DriverAt(call, arg) ==
    /\ ~crashed /\ UNCHANGED notStages
    /\ dpc < Len(Program)
    /\ ~dwait
    /\ Program[dpc + 1] = [call |-> call, arg |-> arg]

\* fmt.Sprintf("StageK processed: %s", pipeMsg.Data)
Processed(k, by) == <<k>> \o by

\* stageK.Start(): a.wg.Add(1) and go func() { ... }()
PA_Start(s) ==
    /\ DriverAt("Start", s)
    /\ gwg' = [gwg EXCEPT ![s] = @ + 1]
    /\ glpc' = [glpc EXCEPT ![s] = "select"]
    /\ dpc' = dpc + 1
    /\ UNCHANGED <<gn, gmail, gstop, glmsg, dwait, ghandled>>

\* stage1.Send(PipelineMessage{Data: item, Stage: 0}): a.mailbox <- msg
PA_Send(d) ==
    /\ DriverAt("Send", d)
    /\ Len(gmail[1]) < MailboxCap
    /\ gmail' = [gmail EXCEPT ![1] = Append(@, PipelineMessage(d, << >>, 0))]
    /\ dpc' = dpc + 1
    /\ UNCHANGED <<gn, gstop, gwg, glpc, glmsg, dwait, ghandled>>

\* stageK.Send(StopMessage{})
PA_SendStop(s) ==
    /\ DriverAt("SendStop", s)
    /\ Len(gmail[s]) < MailboxCap
    /\ gmail' = [gmail EXCEPT ![s] = Append(@, StopMessage)]
    /\ dpc' = dpc + 1
    /\ UNCHANGED <<gn, gstop, gwg, glpc, glmsg, dwait, ghandled>>

\* stageK.Stop(): close(a.stop); each stage is stopped once
PA_StopClose(s) ==
    /\ DriverAt("Stop", s)
    /\ gstop' = [gstop EXCEPT ![s] = TRUE]
    /\ dwait' = TRUE
    /\ UNCHANGED <<gn, gmail, gwg, glpc, glmsg, dpc, ghandled>>

\* stageK.Stop(): a.wg.Wait()
PA_StopWait(s) ==
    /\ ~crashed /\ UNCHANGED notStages
    /\ dwait
    /\ Program[dpc + 1] = [call |-> "Stop", arg |-> s]
    /\ gwg[s] = 0
    /\ dwait' = FALSE
    /\ dpc' = dpc + 1
    /\ UNCHANGED <<gn, gmail, gstop, gwg, glpc, glmsg, ghandled>>

\* a dispatch loop that takes the newest message of the mailbox
PA_LoopReceiveNewest(s) ==
    /\ ~crashed /\ UNCHANGED notStages
    /\ glpc[s] = "select"
    /\ gmail[s] # << >>
    /\ gmail' = [gmail EXCEPT ![s] = SubSeq(@, 1, Len(@) - 1)]
    /\ IF gmail[s][Len(gmail[s])].type = "pipeline"
       THEN /\ glpc' = [glpc EXCEPT ![s] = "handle"]
            /\ glmsg' = [glmsg EXCEPT ![s] = gmail[s][Len(gmail[s])]]
            /\ ghandled' = [ghandled EXCEPT
                              ![s] = Append(@, gmail[s][Len(gmail[s])])]
       ELSE UNCHANGED <<glpc, glmsg, ghandled>>
    /\ UNCHANGED <<gn, gstop, gwg, dpc, dwait>>

\* case msg := <-a.mailbox: the handler of msg.Type() is looked up; a
\* "pipeline" message is handed to it, a StopMessage has no handler here
\* and is only reported
PA_LoopReceive(s) ==
    /\ ~crashed /\ UNCHANGED notStages
    /\ glpc[s] = "select"
    /\ gmail[s] # << >>
    /\ gmail' = [gmail EXCEPT ![s] = Tail(@)]
    /\ IF Head(gmail[s]).type = "pipeline"
       THEN /\ glpc' = [glpc EXCEPT ![s] = "handle"]
            /\ glmsg' = [glmsg EXCEPT ![s] = Head(gmail[s])]
            /\ ghandled' = [ghandled EXCEPT ![s] = Append(@, Head(gmail[s]))]
       ELSE UNCHANGED <<glpc, glmsg, ghandled>>
    /\ UNCHANGED <<gn, gstop, gwg, dpc, dwait>>

\* the handlers of stage1 and stage2: the next stage is sent the processed
\* data, which waits for room in its mailbox; the handler of stage3 prints
PA_Handler(s) ==
    /\ ~crashed /\ UNCHANGED notStages
    /\ glpc[s] = "handle"
    /\ IF s < NumStages
       THEN /\ Len(gmail[s + 1]) < MailboxCap
            /\ gmail' = [gmail EXCEPT ![s + 1] =
                           Append(@, PipelineMessage(glmsg[s].item,
                                         Processed(s, glmsg[s].by), s))]
       ELSE UNCHANGED gmail
    /\ glpc' = [glpc EXCEPT ![s] = "select"]
    /\ glmsg' = [glmsg EXCEPT ![s] = StopMessage]
    /\ UNCHANGED <<gn, gstop, gwg, dpc, dwait, ghandled>>

\* case <-a.stop: return, and the deferred a.wg.Done()
PA_LoopStop(s) ==
    /\ ~crashed /\ UNCHANGED notStages
    /\ glpc[s] = "select"
    /\ gstop[s]
    /\ glpc' = [glpc EXCEPT ![s] = "exited"]
    /\ gwg' = [gwg EXCEPT ![s] = @ - 1]
    /\ UNCHANGED <<gn, gmail, gstop, glmsg, dpc, dwait, ghandled>>

\* every step but the closing of a stop channel
StagesRun ==
    \/ \E s \in Stages : PA_Start(s) \/ PA_SendStop(s) \/ PA_StopWait(s)
    \/ \E d \in 1 .. gn : PA_Send(d)
    \/ \E s \in Stages : PA_LoopReceive(s) \/ PA_Handler(s) \/ PA_LoopStop(s)

StagesNext == StagesRun \/ \E s \in Stages : PA_StopClose(s)

StagesInit ==
    /\ InitFuture /\ InitActor /\ InitNoPipeline /\ InitNoMerge
    /\ InitObservable /\ InitNoChain /\ InitNoStateful /\ InitStages
    /\ InitNoExample

SpecStages == StagesInit /\ [][StagesNext]_vars
\* every goroutine that can take a step is scheduled; the driver is not
\* made to stop the actors
FairStages == SpecStages /\ WF_vars(StagesRun)

(***************************************************************************)
(* Several actors and one driver (07_actor.go:151-195): the mailbox of     *)
(* actor a is the channel ech[a], its stop channel is closed when          *)
(* a \in eclosed, its WaitGroup is ewg[a] and its dispatch goroutine is    *)
(* epc[a]; the driver is the goroutine "main" and eloc["main"] counts the  *)
(* calls it has completed                                                  *)
(***************************************************************************)
\* the actors of DOMAIN h, none started, with their handlers and the calls
\* prog of the driver; `others` are the further channels of the example
NewActors(h, prog, none, others) ==
    /\ ehandlers = h
    /\ eprog = prog
    /\ ech = [c \in DOMAIN h \cup others |-> << >>]
    /\ eclosed = {}
    /\ ewg = [a \in DOMAIN h |-> 0]
    /\ epc = [g \in DOMAIN h \cup {"main"} |->
                IF g = "main" THEN "run" ELSE "none"]
    /\ eloc = [g \in DOMAIN h \cup {"main"} |->
                 IF g = "main" THEN 0 ELSE none]
    /\ ehist = [a \in DOMAIN h |-> << >>]

\* the call the driver is about to make
Cur == eprog[eloc["main"] + 1]
Driving(call) ==
    /\ ~crashed /\ UNCHANGED notExamples
    /\ epc["main"] = "run"
    /\ eloc["main"] < Len(eprog)
    /\ Cur.call = call
Called == eloc' = [eloc EXCEPT !["main"] = @ + 1]

\* a.Start(): a.wg.Add(1) and go func() { ... }()
Act_Start ==
    /\ Driving("Start")
    /\ ewg' = [ewg EXCEPT ![Cur.to] = @ + 1]
    /\ epc' = [epc EXCEPT ![Cur.to] = "select"]
    /\ Called
    /\ UNCHANGED <<ech, eclosed, emem, ehist, eprog, ehandlers>>

\* a.Send(msg): a.mailbox <- msg
Act_Send ==
    /\ Driving("Send")
    /\ Len(ech[Cur.to]) < MailboxCap
    /\ ech' = [ech EXCEPT ![Cur.to] = Append(@, Cur.msg)]
    /\ Called
    /\ UNCHANGED <<eclosed, epc, ewg, emem, ehist, eprog, ehandlers>>

\* a.Stop(): close(a.stop), which panics when a.stop is closed already
Act_StopClose ==
    /\ Driving("Stop")
    /\ IF Cur.to \in eclosed
       THEN /\ epc' = [epc EXCEPT !["main"] = "panicked"]
            /\ UNCHANGED eclosed
       ELSE /\ eclosed' = eclosed \cup {Cur.to}
            /\ epc' = [epc EXCEPT !["main"] = "stop_wait"]
    /\ UNCHANGED <<ech, eloc, ewg, emem, ehist, eprog, ehandlers>>

\* a.Stop(): a.wg.Wait()
Act_StopWait ==
    /\ ~crashed /\ UNCHANGED notExamples
    /\ epc["main"] = "stop_wait"
    /\ ewg[Cur.to] = 0
    /\ epc' = [epc EXCEPT !["main"] = "run"]
    /\ Called
    /\ UNCHANGED <<ech, eclosed, ewg, emem, ehist, eprog, ehandlers>>

\* case msg := <-a.mailbox: the handler of msg.Type() is invoked when there
\* is one; a message of another type is only reported
Act_LoopReceive(a) ==
    /\ ~crashed /\ UNCHANGED notExamples
    /\ epc[a] = "select"
    /\ ech[a] # << >>
    /\ ech' = [ech EXCEPT ![a] = Tail(@)]
    /\ IF Head(ech[a]).type \in ehandlers[a]
       THEN /\ epc' = [epc EXCEPT ![a] = "handle"]
            /\ eloc' = [eloc EXCEPT ![a] = Head(ech[a])]
            /\ ehist' = [ehist EXCEPT ![a] = Append(@, Head(ech[a]))]
       ELSE UNCHANGED <<epc, eloc, ehist>>
    /\ UNCHANGED <<eclosed, ewg, emem, eprog, ehandlers>>

\* case <-a.stop: return, and the deferred a.wg.Done()
Act_LoopStop(a) ==
    /\ ~crashed /\ UNCHANGED notExamples
    /\ epc[a] = "select"
    /\ a \in eclosed
    /\ epc' = [epc EXCEPT ![a] = "exited"]
    /\ ewg' = [ewg EXCEPT ![a] = @ - 1]
    /\ UNCHANGED <<ech, eclosed, eloc, emem, ehist, eprog, ehandlers>>

\* the steps of the driver other than close(a.stop), and those of the loops
ActorsRun ==
    \/ Act_Start \/ Act_Send \/ Act_StopWait
    \/ \E a \in DOMAIN ehandlers : Act_LoopReceive(a) \/ Act_LoopStop(a)

(***************************************************************************)
(* actorCommunicationExample (07_actor.go:266-308): pingActor handles      *)
(* "pong" messages and pongActor handles "ping" messages                   *)
(***************************************************************************)
\* if pongMsg.Count < 5 { ... } else { game over }
GameRounds == 5

PingMessage(c) == [type |-> "ping", count |-> c]
PongMessage(c) == [type |-> "pong", count |-> c]
GameStop == [type |-> "stop", count |-> 0]

PingPongHandlers == [ping |-> {"pong"}, pong |-> {"ping"}]

\* Start both, send the first message, Stop both
PingPongProgram(to, msg) ==
    <<[call |-> "Start", to |-> "ping", msg |-> GameStop],
      [call |-> "Start", to |-> "pong", msg |-> GameStop],
      [call |-> "Send", to |-> to, msg |-> msg],
      [call |-> "Stop", to |-> "ping", msg |-> GameStop],
      [call |-> "Stop", to |-> "pong", msg |-> GameStop]>>

\* the first message as the example sends it: pingActor.Send(PingMessage{1})
ExampleFirst == [call |-> "Send", to |-> "ping", msg |-> PingMessage(1)]

\* the example, and the same actors with another first message
InitPingPong ==
    /\ \E to \in {"ping", "pong"}, c \in 1 .. GameRounds :
       \E msg \in {PingMessage(c), PongMessage(c)} :
          NewActors(PingPongHandlers, PingPongProgram(to, msg), GameStop, {})
    /\ emem = << >>

\* the "pong" handler of pingActor: below five the next ping goes to
\* pongActor; at five the game is over and pongActor is sent a StopMessage
Ping_Handler ==
    /\ ~crashed /\ UNCHANGED notExamples
    /\ epc["ping"] = "handle"
    /\ Len(ech["pong"]) < MailboxCap
    /\ IF eloc["ping"].count < GameRounds
       THEN /\ ech' = [ech EXCEPT !["pong"] =
                         Append(@, PingMessage(eloc["ping"].count + 1))]
            /\ epc' = [epc EXCEPT !["ping"] = "select"]
       ELSE /\ ech' = [ech EXCEPT !["pong"] = Append(@, GameStop)]
            /\ epc' = [epc EXCEPT !["ping"] = "stop_self"]
    /\ UNCHANGED <<eclosed, eloc, ewg, emem, ehist, eprog, ehandlers>>

\* game over, second statement: pingActor.Send(StopMessage{}) by the
\* dispatch goroutine of pingActor itself
Ping_HandlerStopSelf ==
    /\ ~crashed /\ UNCHANGED notExamples
    /\ epc["ping"] = "stop_self"
    /\ Len(ech["ping"]) < MailboxCap
    /\ ech' = [ech EXCEPT !["ping"] = Append(@, GameStop)]
    /\ epc' = [epc EXCEPT !["ping"] = "select"]
    /\ UNCHANGED <<eclosed, eloc, ewg, emem, ehist, eprog, ehandlers>>

\* the "ping" handler of pongActor: pingActor.Send(PongMessage{Count})
Pong_Handler ==
    /\ ~crashed /\ UNCHANGED notExamples
    /\ epc["pong"] = "handle"
    /\ Len(ech["ping"]) < MailboxCap
    /\ ech' = [ech EXCEPT !["ping"] =
                 Append(@, PongMessage(eloc["pong"].count))]
    /\ epc' = [epc EXCEPT !["pong"] = "select"]
    /\ UNCHANGED <<eclosed, eloc, ewg, emem, ehist, eprog, ehandlers>>

PingPongRun ==
    ActorsRun \/ Ping_Handler \/ Ping_HandlerStopSelf \/ Pong_Handler

PingPongNext == PingPongRun \/ Act_StopClose

PingPongInit ==
    /\ InitFuture /\ InitActor /\ InitNoPipeline /\ InitNoMerge
    /\ InitObservable /\ InitNoChain /\ InitNoStateful /\ InitNoStages
    /\ InitPingPong

SpecPingPong == PingPongInit /\ [][PingPongNext]_vars
\* every goroutine that can take a step is scheduled; the driver is not
\* made to stop the actors
FairPingPong == SpecPingPong /\ WF_vars(PingPongRun)

(***************************************************************************)
(* comprehensiveActorExample (07_actor.go:573-687): a bank actor whose     *)
(* handler answers on the Response channel of the message, and two client  *)
(* actors whose handler reads that channel; every message of the driver    *)
(* carries the same responseChan.  Only the bank's dispatch goroutine      *)
(* takes mu, so the lock is left out.                                      *)
(***************************************************************************)
Accounts == {"ACC001", "ACC002"}

BankMessage(op, acct, amount) ==
    [type |-> "bank", op |-> op, acct |-> acct, amount |-> amount]
BankStop == [type |-> "stop", op |-> "", acct |-> "", amount |-> 0]

\* the BankMessages of the driver with the actor each is sent to
BankOps ==
    <<[to |-> "client1", msg |-> BankMessage("create", "ACC001", 0)],
      [to |-> "client1", msg |-> BankMessage("deposit", "ACC001", 1000)],
      [to |-> "client2", msg |-> BankMessage("create", "ACC002", 0)],
      [to |-> "client2", msg |-> BankMessage("deposit", "ACC002", 500)],
      [to |-> "client1", msg |-> BankMessage("balance", "ACC001", 0)],
      [to |-> "client2", msg |-> BankMessage("balance", "ACC002", 0)],
      [to |-> "client1", msg |-> BankMessage("withdraw", "ACC001", 300)],
      [to |-> "client2", msg |-> BankMessage("withdraw", "ACC002", 200)]>>

BankActors == <<"bank", "client1", "client2">>

\* the calls of the driver: Start the three actors, Send the BankMessages,
\* Send a StopMessage to each actor, Stop each.  The example sends every
\* BankMessage to a client only; with toBank the bank is sent it first.
BankProgram(toBank) ==
    LET Sends(i) ==
          (IF toBank
           THEN <<[call |-> "Send", to |-> "bank", msg |-> BankOps[i].msg]>>
           ELSE << >>)
          \o <<[call |-> "Send", to |-> BankOps[i].to,
                msg |-> BankOps[i].msg]>>
        RECURSIVE AllSends(_)
        AllSends(i) ==
          IF i > Len(BankOps) THEN << >> ELSE Sends(i) \o AllSends(i + 1)
    IN  [i \in 1 .. 3 |->
           [call |-> "Start", to |-> BankActors[i], msg |-> BankStop]]
        \o AllSends(1)
        \o [i \in 1 .. 3 |->
              [call |-> "Send", to |-> BankActors[i], msg |-> BankStop]]
        \o [i \in 1 .. 3 |->
              [call |-> "Stop", to |-> BankActors[i], msg |-> BankStop]]

\* the example as written
BankAsWritten == eprog = BankProgram(FALSE)

InitBank ==
    /\ \E toBank \in BOOLEAN :
         NewActors([a \in {"bank", "client1", "client2"} |-> {"bank"}],
                   BankProgram(toBank), BankStop, {"response"})
    /\ emem = [a \in Accounts |-> [exists |-> FALSE, balance |-> 0]]

\* make(chan interface{}, 1)
ResponseCap == 1

\* the account after the operation of message m
Executed(m, acc) ==
    CASE m.op = "create" -> [exists |-> TRUE, balance |-> 0]
      [] m.op = "deposit" /\ acc.exists ->
           [acc EXCEPT !.balance = @ + m.amount]
      [] m.op = "withdraw" /\ acc.exists /\ acc.balance >= m.amount ->
           [acc EXCEPT !.balance = @ - m.amount]
      [] OTHER -> acc

\* what the bank sends on bankMsg.Response
Reply(m, acc) ==
    CASE m.op = "create" -> <<"Account created successfully", 0>>
      [] ~acc.exists -> <<"Account does not exist", 0>>
      [] m.op = "withdraw" /\ acc.balance < m.amount ->
           <<"Insufficient balance", 0>>
      [] OTHER -> <<"balance", Executed(m, acc).balance>>

\* the "bank" handler of the bank actor: the operation is carried out and
\* the answer sent on bankMsg.Response, which waits for room in the channel
Bank_Handler ==
    /\ ~crashed /\ UNCHANGED notExamples
    /\ epc["bank"] = "handle"
    /\ Len(ech["response"]) < ResponseCap
    /\ emem' = [emem EXCEPT ![eloc["bank"].acct] = Executed(eloc["bank"], @)]
    /\ ech' = [ech EXCEPT !["response"] =
                 Append(@, Reply(eloc["bank"], emem[eloc["bank"].acct]))]
    /\ epc' = [epc EXCEPT !["bank"] = "select"]
    /\ UNCHANGED <<eclosed, eloc, ewg, ehist, eprog, ehandlers>>

\* the "bank" handler of a client actor: response := <-bankMsg.Response
Client_Handler(a) ==
    /\ ~crashed /\ UNCHANGED notExamples
    /\ a # "bank"
    /\ epc[a] = "handle"
    /\ ech["response"] # << >>
    /\ ech' = [ech EXCEPT !["response"] = Tail(@)]
    /\ epc' = [epc EXCEPT ![a] = "select"]
    /\ UNCHANGED <<eclosed, eloc, ewg, emem, ehist, eprog, ehandlers>>

BankNext ==
    \/ ActorsRun \/ Act_StopClose
    \/ Bank_Handler
    \/ \E a \in {"client1", "client2"} : Client_Handler(a)

BankInit ==
    /\ InitFuture /\ InitActor /\ InitNoPipeline /\ InitNoMerge
    /\ InitObservable /\ InitNoChain /\ InitNoStateful /\ InitNoStages
    /\ InitBank

SpecBank == BankInit /\ [][BankNext]_vars
\* every goroutine that can take a step is scheduled
FairBank == SpecBank /\ WF_vars(BankNext)

(***************************************************************************)
(* The ping and pong actors of actorCommunicationExample under a driver    *)
(* that fills the mailbox of pingActor before the Starts: one PongMessage  *)
(* and MailboxCap - 1 StopMessages to pingActor, two PingMessages to       *)
(* pongActor (07_actor.go:166-189, 274-295)                                *)
(***************************************************************************)
BurstProgram ==
    <<[call |-> "Send", to |-> "ping", msg |-> PongMessage(GameRounds)]>>
    \o [i \in 1 .. MailboxCap - 1 |->
          [call |-> "Send", to |-> "ping", msg |-> GameStop]]
    \o <<[call |-> "Send", to |-> "pong", msg |-> PingMessage(GameRounds)],
         [call |-> "Send", to |-> "pong", msg |-> PingMessage(GameRounds)],
         [call |-> "Start", to |-> "pong", msg |-> GameStop],
         [call |-> "Start", to |-> "ping", msg |-> GameStop],
         [call |-> "Stop", to |-> "ping", msg |-> GameStop],
         [call |-> "Stop", to |-> "pong", msg |-> GameStop]>>

InitBurst ==
    /\ NewActors(PingPongHandlers, BurstProgram, GameStop, {})
    /\ emem = << >>

BurstInit ==
    /\ InitFuture /\ InitActor /\ InitNoPipeline /\ InitNoMerge
    /\ InitObservable /\ InitNoChain /\ InitNoStateful /\ InitNoStages
    /\ InitBurst

SpecBurst == BurstInit /\ [][PingPongNext]_vars
\* every goroutine that can take a step is scheduled; the driver is not
\* made to stop the actors
FairBurst == SpecBurst /\ WF_vars(PingPongRun)

(***************************************************************************)
(* workerPoolCSPExample (08_csp.go:299-350): a scheduler sends the jobs    *)
(* and closes jobs; three workers range over jobs and send one result per  *)
(* job; a closer waits for the workers and closes results; a processor     *)
(* ranges over results                                                     *)
(***************************************************************************)
\* const numWorkers = 3; const numJobs = 10, also the channel capacities
NumPoolWorkers == 3
NumJobs == 10
PoolWorkers == {"worker1", "worker2", "worker3"}

\* the state after the workers, the scheduler, the closer and the processor
\* have been started: wg.Add(1) ran once for each worker
InitWorkerPool ==
    /\ \E n \in 1 .. MaxJobs : emem = [jobs |-> n]
    /\ ech = [c \in {"jobs", "results"} |-> << >>]
    /\ eclosed = {}
    /\ epc = [g \in PoolWorkers \cup {"scheduler", "closer", "processor"} |->
                "run"]
    /\ eloc = [g \in PoolWorkers \cup {"scheduler"} |-> 0]
    /\ ewg = [wg |-> NumPoolWorkers]
    /\ ehist = [g \in PoolWorkers \cup {"processor"} |-> << >>]
    /\ eprog = << >>
    /\ ehandlers = << >>

\* goroutine g is at `at` and the process is alive
ERunning(g, at) == ~crashed /\ UNCHANGED notExamples /\ epc[g] = at

\* jobs <- i
WP_SendJob ==
    /\ ERunning("scheduler", "run")
    /\ eloc["scheduler"] < emem.jobs
    /\ Len(ech["jobs"]) < NumJobs
    /\ ech' = [ech EXCEPT !["jobs"] = Append(@, eloc["scheduler"] + 1)]
    /\ eloc' = [eloc EXCEPT !["scheduler"] = @ + 1]
    /\ UNCHANGED <<eclosed, epc, ewg, emem, ehist, eprog, ehandlers>>

\* defer close(jobs), when the loop of the scheduler is over
WP_CloseJobs ==
    /\ ERunning("scheduler", "run")
    /\ eloc["scheduler"] = emem.jobs
    /\ eclosed' = eclosed \cup {"jobs"}
    /\ epc' = [epc EXCEPT !["scheduler"] = "done"]
    /\ UNCHANGED <<ech, eloc, ewg, emem, ehist, eprog, ehandlers>>

\* for job := range jobs
WP_TakeJob(w) ==
    /\ ERunning(w, "run")
    /\ ech["jobs"] # << >>
    /\ ech' = [ech EXCEPT !["jobs"] = Tail(@)]
    /\ eloc' = [eloc EXCEPT ![w] = Head(ech["jobs"])]
    /\ ehist' = [ehist EXCEPT ![w] = Append(@, Head(ech["jobs"]))]
    /\ epc' = [epc EXCEPT ![w] = "send"]
    /\ UNCHANGED <<eclosed, ewg, emem, eprog, ehandlers>>

\* results <- result, which panics when results is closed
WP_SendResult(w) ==
    /\ ERunning(w, "send")
    /\ IF "results" \in eclosed
       THEN /\ epc' = [epc EXCEPT ![w] = "panicked"]
            /\ UNCHANGED ech
       ELSE /\ Len(ech["results"]) < NumJobs
            /\ ech' = [ech EXCEPT !["results"] = Append(@, <<w, eloc[w]>>)]
            /\ epc' = [epc EXCEPT ![w] = "run"]
    /\ UNCHANGED <<eclosed, eloc, ewg, emem, ehist, eprog, ehandlers>>

\* jobs is closed and drained: the range loop ends, and defer wg.Done()
WP_WorkerDone(w) ==
    /\ ERunning(w, "run")
    /\ ech["jobs"] = << >> /\ "jobs" \in eclosed
    /\ epc' = [epc EXCEPT ![w] = "done"]
    /\ ewg' = [ewg EXCEPT !.wg = @ - 1]
    /\ UNCHANGED <<ech, eclosed, eloc, emem, ehist, eprog, ehandlers>>

\* a closer that does not wait for the workers
WP_CloseResultsEarly ==
    /\ ERunning("closer", "run")
    /\ eclosed' = eclosed \cup {"results"}
    /\ epc' = [epc EXCEPT !["closer"] = "done"]
    /\ UNCHANGED <<ech, eloc, ewg, emem, ehist, eprog, ehandlers>>

\* wg.Wait() and the deferred close(results)
WP_CloseResults ==
    /\ ERunning("closer", "run")
    /\ ewg.wg = 0
    /\ eclosed' = eclosed \cup {"results"}
    /\ epc' = [epc EXCEPT !["closer"] = "done"]
    /\ UNCHANGED <<ech, eloc, ewg, emem, ehist, eprog, ehandlers>>

\* for result := range results
WP_ProcessResult ==
    /\ ERunning("processor", "run")
    /\ ech["results"] # << >>
    /\ ech' = [ech EXCEPT !["results"] = Tail(@)]
    /\ ehist' = [ehist EXCEPT !["processor"] = Append(@, Head(ech["results"]))]
    /\ UNCHANGED <<eclosed, epc, eloc, ewg, emem, eprog, ehandlers>>

\* results is closed and drained: the range loop of the processor ends
WP_ProcessDone ==
    /\ ERunning("processor", "run")
    /\ ech["results"] = << >> /\ "results" \in eclosed
    /\ epc' = [epc EXCEPT !["processor"] = "done"]
    /\ UNCHANGED <<ech, eclosed, eloc, ewg, emem, ehist, eprog, ehandlers>>

WorkerPoolNext ==
    \/ WP_SendJob \/ WP_CloseJobs \/ WP_CloseResults
    \/ WP_ProcessResult \/ WP_ProcessDone
    \/ \E w \in PoolWorkers :
         WP_TakeJob(w) \/ WP_SendResult(w) \/ WP_WorkerDone(w)

WorkerPoolInit ==
    /\ InitFuture /\ InitActor /\ InitNoPipeline /\ InitNoMerge
    /\ InitObservable /\ InitNoChain /\ InitNoStateful /\ InitNoStages
    /\ InitWorkerPool

SpecWorkerPool == WorkerPoolInit /\ [][WorkerPoolNext]_vars
\* every goroutine that can take a step is scheduled
FairWorkerPool == SpecWorkerPool /\ WF_vars(WorkerPoolNext)

(***************************************************************************)
(* requestResponseCSPExample (08_csp.go:426-489): two clients send three   *)
(* requests each; a service answers each request; a collector ranges over  *)
(* responses; a closer sleeps and closes requests.  A sleep orders nothing *)
(* between goroutines, so the closer may close at any point.               *)
(***************************************************************************)
\* make(chan Request, 10), make(chan Response, 10)
RequestCap == 10
\* for i := 1; i <= 3; i++ and for i := 4; i <= 6; i++
RequestsPerClient == 3
RRClients == {"client1", "client2"}
\* the ID of the k-th request of client c
RequestID(c, k) == IF c = "client1" THEN k ELSE RequestsPerClient + k

InitRequestResponse ==
    /\ ech = [c \in {"requests", "responses"} |-> << >>]
    /\ eclosed = {}
    /\ epc = [g \in RRClients \cup {"service", "collector", "closer"} |->
                "run"]
    /\ eloc = [g \in RRClients \cup {"service"} |-> 0]
    /\ ewg = << >>
    /\ emem = << >>
    /\ ehist = [g \in {"enqueued", "collector"} |-> << >>]
    /\ eprog = << >>
    /\ ehandlers = << >>

\* requests <- req, which panics when requests is closed
RR_ClientSend(c) ==
    /\ ERunning(c, "run")
    /\ eloc[c] < RequestsPerClient
    /\ IF "requests" \in eclosed
       THEN /\ epc' = [epc EXCEPT ![c] = "panicked"]
            /\ UNCHANGED <<ech, eloc, ehist>>
       ELSE /\ Len(ech["requests"]) < RequestCap
            /\ ech' = [ech EXCEPT !["requests"] =
                         Append(@, RequestID(c, eloc[c] + 1))]
            /\ ehist' = [ehist EXCEPT !["enqueued"] =
                           Append(@, RequestID(c, eloc[c] + 1))]
            /\ eloc' = [eloc EXCEPT ![c] = @ + 1]
            /\ UNCHANGED epc
    /\ UNCHANGED <<eclosed, ewg, emem, eprog, ehandlers>>

\* for req := range requests
RR_ServiceReceive ==
    /\ ERunning("service", "run")
    /\ ech["requests"] # << >>
    /\ ech' = [ech EXCEPT !["requests"] = Tail(@)]
    /\ eloc' = [eloc EXCEPT !["service"] = Head(ech["requests"])]
    /\ epc' = [epc EXCEPT !["service"] = "respond"]
    /\ UNCHANGED <<eclosed, ewg, emem, ehist, eprog, ehandlers>>

\* responses <- Response{RequestID: req.ID, ...}
RR_ServiceRespond ==
    /\ ERunning("service", "respond")
    /\ Len(ech["responses"]) < RequestCap
    /\ ech' = [ech EXCEPT !["responses"] = Append(@, eloc["service"])]
    /\ eloc' = [eloc EXCEPT !["service"] = 0]
    /\ epc' = [epc EXCEPT !["service"] = "run"]
    /\ UNCHANGED <<eclosed, ewg, emem, ehist, eprog, ehandlers>>

\* requests is closed and drained: the loop ends, defer close(responses)
RR_ServiceDone ==
    /\ ERunning("service", "run")
    /\ ech["requests"] = << >> /\ "requests" \in eclosed
    /\ eclosed' = eclosed \cup {"responses"}
    /\ epc' = [epc EXCEPT !["service"] = "done"]
    /\ UNCHANGED <<ech, eloc, ewg, emem, ehist, eprog, ehandlers>>

\* for response := range responses
RR_Collect ==
    /\ ERunning("collector", "run")
    /\ ech["responses"] # << >>
    /\ ech' = [ech EXCEPT !["responses"] = Tail(@)]
    /\ ehist' = [ehist EXCEPT !["collector"] =
                   Append(@, Head(ech["responses"]))]
    /\ UNCHANGED <<eclosed, epc, eloc, ewg, emem, eprog, ehandlers>>

\* responses is closed and drained: the loop of the collector ends
RR_CollectDone ==
    /\ ERunning("collector", "run")
    /\ ech["responses"] = << >> /\ "responses" \in eclosed
    /\ epc' = [epc EXCEPT !["collector"] = "done"]
    /\ UNCHANGED <<ech, eclosed, eloc, ewg, emem, ehist, eprog, ehandlers>>

\* time.Sleep(1 * time.Second); close(requests)
RR_CloseRequests ==
    /\ ERunning("closer", "run")
    /\ eclosed' = eclosed \cup {"requests"}
    /\ epc' = [epc EXCEPT !["closer"] = "done"]
    /\ UNCHANGED <<ech, eloc, ewg, emem, ehist, eprog, ehandlers>>

RequestResponseNext ==
    \/ \E c \in RRClients : RR_ClientSend(c)
    \/ RR_ServiceReceive \/ RR_ServiceRespond \/ RR_ServiceDone
    \/ RR_Collect \/ RR_CollectDone \/ RR_CloseRequests
    \/ ProcessExit

RequestResponseInit ==
    /\ InitFuture /\ InitActor /\ InitNoPipeline /\ InitNoMerge
    /\ InitObservable /\ InitNoChain /\ InitNoStateful /\ InitNoStages
    /\ InitRequestResponse

SpecRequestResponse == RequestResponseInit /\ [][RequestResponseNext]_vars

(***************************************************************************)
(* comprehensiveCSPExample (08_csp.go:492-583): a generator sends four     *)
(* orders; validator, processor and completer pass the valid ones on and   *)
(* each reports on the shared status channel, which a monitor ranges over  *)
(***************************************************************************)
\* make(chan Order, 10), make(chan OrderStatus, 10)
OrderCap == 10
\* orderData: orders 1 .. 4; order 4 has no items and a total of 0
NumOrders == 4
ValidOrder(id) == id # NumOrders

OrderStages == {"validator", "processor", "completer"}
\* the channel a stage ranges over and the one it sends the order on
StageIn(g) ==
    CASE g = "validator" -> "orders"
      [] g = "processor" -> "validated"
      [] g = "completer" -> "processed"
StageOut(g) ==
    CASE g = "validator" -> "validated"
      [] g = "processor" -> "processed"
      [] g = "completer" -> ""
\* the status a stage reports for an order it has passed on
StageStatus(g) ==
    CASE g = "validator" -> "VALIDATED"
      [] g = "processor" -> "PROCESSED"
      [] g = "completer" -> "COMPLETED"

InitOrders ==
    /\ ech = [c \in {"orders", "validated", "processed", "status"} |-> << >>]
    /\ eclosed = {}
    /\ epc = [g \in OrderStages \cup {"generator", "monitor"} |-> "run"]
    /\ eloc = [g \in OrderStages \cup {"generator"} |-> 0]
    /\ ewg = << >>
    /\ emem = << >>
    /\ ehist = [g \in {"monitor"} |-> << >>]
    /\ eprog = << >>
    /\ ehandlers = << >>

\* orders <- order
CO_Generate ==
    /\ ERunning("generator", "run")
    /\ eloc["generator"] < NumOrders
    /\ Len(ech["orders"]) < OrderCap
    /\ ech' = [ech EXCEPT !["orders"] = Append(@, eloc["generator"] + 1)]
    /\ eloc' = [eloc EXCEPT !["generator"] = @ + 1]
    /\ UNCHANGED <<eclosed, epc, ewg, emem, ehist, eprog, ehandlers>>

\* defer close(orders)
CO_GenerateDone ==
    /\ ERunning("generator", "run")
    /\ eloc["generator"] = NumOrders
    /\ eclosed' = eclosed \cup {"orders"}
    /\ epc' = [epc EXCEPT !["generator"] = "done"]
    /\ UNCHANGED <<ech, eloc, ewg, emem, ehist, eprog, ehandlers>>

\* for order := range <input>; the validator rejects an order without items
\* or with a total that is not positive; the completer sends no order on
CO_Receive(g) ==
    /\ ERunning(g, "run")
    /\ ech[StageIn(g)] # << >>
    /\ ech' = [ech EXCEPT ![StageIn(g)] = Tail(@)]
    /\ eloc' = [eloc EXCEPT ![g] = Head(ech[StageIn(g)])]
    /\ epc' = [epc EXCEPT ![g] =
                 IF g = "validator" /\ ~ValidOrder(Head(ech[StageIn(g)]))
                 THEN "reject"
                 ELSE IF g = "completer" THEN "report" ELSE "forward"]
    /\ UNCHANGED <<eclosed, ewg, emem, ehist, eprog, ehandlers>>

\* validated <- order / processed <- order
CO_Forward(g) ==
    /\ ERunning(g, "forward")
    /\ Len(ech[StageOut(g)]) < OrderCap
    /\ ech' = [ech EXCEPT ![StageOut(g)] = Append(@, eloc[g])]
    /\ epc' = [epc EXCEPT ![g] = "report"]
    /\ UNCHANGED <<eclosed, eloc, ewg, emem, ehist, eprog, ehandlers>>

\* status <- OrderStatus{OrderID: order.ID, Status: ...}
CO_Report(g) ==
    /\ ERunning(g, "report") \/ ERunning(g, "reject")
    /\ Len(ech["status"]) < OrderCap
    /\ ech' = [ech EXCEPT !["status"] =
                 Append(@, <<eloc[g], IF epc[g] = "reject" THEN "REJECTED"
                                      ELSE StageStatus(g)>>)]
    /\ epc' = [epc EXCEPT ![g] = "run"]
    /\ UNCHANGED <<eclosed, eloc, ewg, emem, ehist, eprog, ehandlers>>

\* the input is closed and drained: the loop ends; defer close(validated)
\* and defer close(processed)
CO_Done(g) ==
    /\ ERunning(g, "run")
    /\ ech[StageIn(g)] = << >> /\ StageIn(g) \in eclosed
    /\ eclosed' = IF g = "completer" THEN eclosed
                  ELSE eclosed \cup {StageOut(g)}
    /\ epc' = [epc EXCEPT ![g] = "done"]
    /\ UNCHANGED <<ech, eloc, ewg, emem, ehist, eprog, ehandlers>>

\* for orderStatus := range status
CO_Monitor ==
    /\ ERunning("monitor", "run")
    /\ ech["status"] # << >>
    /\ ech' = [ech EXCEPT !["status"] = Tail(@)]
    /\ ehist' = [ehist EXCEPT !["monitor"] = Append(@, Head(ech["status"]))]
    /\ UNCHANGED <<eclosed, epc, eloc, ewg, emem, eprog, ehandlers>>

OrdersNext ==
    \/ CO_Generate \/ CO_GenerateDone \/ CO_Monitor
    \/ \E g \in OrderStages :
         CO_Receive(g) \/ CO_Forward(g) \/ CO_Report(g) \/ CO_Done(g)

OrdersInit ==
    /\ InitFuture /\ InitActor /\ InitNoPipeline /\ InitNoMerge
    /\ InitObservable /\ InitNoChain /\ InitNoStateful /\ InitNoStages
    /\ InitOrders

SpecOrders == OrdersInit /\ [][OrdersNext]_vars

(***************************************************************************)
(* pubSubCSPExample (08_csp.go:353-423): a publisher sends five messages   *)
(* on two topic channels and closes both; Subscriber1 ranges over topic1,  *)
(* Subscriber2 over topic2, and Subscriber3 starts one goroutine ranging   *)
(* over each topic and waits for both on done                              *)
(***************************************************************************)
\* make(chan string, 10)
TopicCap == 10
\* make(chan bool, 2)
DoneCap == 2

\* messages: the topic and the number of each message, in publication order
Published ==
    <<[topic |-> "topic1", n |-> 1], [topic |-> "topic2", n |-> 1],
      [topic |-> "topic1", n |-> 2], [topic |-> "topic2", n |-> 2],
      [topic |-> "topic1", n |-> 3]>>

\* the goroutines that range over a topic, and the topic of each
TopicReaders ==
    [subscriber1 |-> "topic1", subscriber2 |-> "topic2",
     subscriber3a |-> "topic1", subscriber3b |-> "topic2"]

InitPubSub ==
    /\ ech = [c \in {"topic1", "topic2", "done"} |-> << >>]
    /\ eclosed = {}
    /\ epc = [g \in DOMAIN TopicReaders \cup {"publisher", "subscriber3"} |->
                "run"]
    /\ eloc = [g \in {"publisher", "subscriber3"} |-> 0]
    /\ ewg = << >>
    /\ emem = << >>
    /\ ehist = [g \in DOMAIN TopicReaders |-> << >>]
    /\ eprog = << >>
    /\ ehandlers = << >>

\* msg.topic <- msg.message
PS_Publish ==
    /\ ERunning("publisher", "run")
    /\ eloc["publisher"] < Len(Published)
    /\ LET msg == Published[eloc["publisher"] + 1]
       IN  /\ Len(ech[msg.topic]) < TopicCap
           /\ ech' = [ech EXCEPT ![msg.topic] = Append(@, msg)]
    /\ eloc' = [eloc EXCEPT !["publisher"] = @ + 1]
    /\ UNCHANGED <<eclosed, epc, ewg, emem, ehist, eprog, ehandlers>>

\* close(topic1); close(topic2)
PS_Close ==
    /\ ~crashed /\ UNCHANGED notExamples
    /\ eloc["publisher"] = Len(Published)
    /\ \/ /\ epc["publisher"] = "run"
          /\ eclosed' = eclosed \cup {"topic1"}
          /\ epc' = [epc EXCEPT !["publisher"] = "close2"]
       \/ /\ epc["publisher"] = "close2"
          /\ eclosed' = eclosed \cup {"topic2"}
          /\ epc' = [epc EXCEPT !["publisher"] = "done"]
    /\ UNCHANGED <<ech, eloc, ewg, emem, ehist, eprog, ehandlers>>

\* for msg := range topic
PS_Receive(g) ==
    /\ ERunning(g, "run")
    /\ ech[TopicReaders[g]] # << >>
    /\ ech' = [ech EXCEPT ![TopicReaders[g]] = Tail(@)]
    /\ ehist' = [ehist EXCEPT ![g] = Append(@, Head(ech[TopicReaders[g]]))]
    /\ UNCHANGED <<eclosed, epc, eloc, ewg, emem, eprog, ehandlers>>

\* the topic is closed and drained: the loop ends; the two goroutines of
\* Subscriber3 then execute done <- true
PS_Finished(g) ==
    /\ ERunning(g, "run")
    /\ ech[TopicReaders[g]] = << >> /\ TopicReaders[g] \in eclosed
    /\ epc' = [epc EXCEPT ![g] = "done"]
    /\ IF g \in {"subscriber3a", "subscriber3b"}
       THEN /\ Len(ech["done"]) < DoneCap
            /\ ech' = [ech EXCEPT !["done"] = Append(@, TRUE)]
       ELSE UNCHANGED ech
    /\ UNCHANGED <<eclosed, eloc, ewg, emem, ehist, eprog, ehandlers>>

\* <-done, twice
PS_Wait ==
    /\ ERunning("subscriber3", "run")
    /\ ech["done"] # << >>
    /\ ech' = [ech EXCEPT !["done"] = Tail(@)]
    /\ eloc' = [eloc EXCEPT !["subscriber3"] = @ + 1]
    /\ epc' = [epc EXCEPT !["subscriber3"] =
                 IF eloc["subscriber3"] + 1 = DoneCap THEN "done" ELSE "run"]
    /\ UNCHANGED <<eclosed, ewg, emem, ehist, eprog, ehandlers>>

PubSubNext ==
    \/ PS_Publish \/ PS_Close \/ PS_Wait
    \/ \E g \in DOMAIN TopicReaders : PS_Receive(g) \/ PS_Finished(g)

PubSubInit ==
    /\ InitFuture /\ InitActor /\ InitNoPipeline /\ InitNoMerge
    /\ InitObservable /\ InitNoChain /\ InitNoStateful /\ InitNoStages
    /\ InitPubSub

SpecPubSub == PubSubInit /\ [][PubSubNext]_vars

(***************************************************************************)
(* Generic WorkerPool[T, R] (04_generics/08_best_practices.go:173-217):    *)
(* NewWorkerPool(workers, processor), Start, then one goroutine calls      *)
(* Submit and GetResult in any order and Close once; a second goroutine    *)
(* may call GetResult concurrently                                         *)
(***************************************************************************)
WorkerIds == <<"w1", "w2", "w3", "w4">>
PoolWorkersOf(n) == {WorkerIds[i] : i \in 1..n}

\* processor: func(n int) int { return n * n }
Processor(job) == job * job

\* make(chan T, workers*2), make(chan R, workers*2)
PoolCap(workers) == workers * 2

\* NewWorkerPool(workers, processor)
NewWorkerPool(workers, consumer) ==
    /\ ech = [c \in {"jobQueue", "resultChan"} |-> << >>]
    /\ eclosed = {}
    /\ epc = [g \in PoolWorkersOf(workers) \cup {"caller", "consumer"} |->
                IF g = "caller" \/ (g = "consumer" /\ consumer)
                THEN "run" ELSE "idle"]
    /\ eloc = [g \in PoolWorkersOf(workers) |-> 0]
    /\ ewg = [wg |-> 0]
    /\ emem = [workers |-> workers, started |-> FALSE, submitted |-> 0]
    /\ ehist = [taken |-> << >>, sent |-> << >>, got |-> << >>]
    /\ eprog = << >>
    /\ ehandlers = << >>

InitGenericPool ==
    \E workers \in 1..MaxPoolSize, consumer \in BOOLEAN :
       NewWorkerPool(workers, consumer)

\* Start: wg.Add(1); go wp.worker(), for each worker
GP_Start ==
    /\ ERunning("caller", "run")
    /\ ~emem.started
    /\ emem' = [emem EXCEPT !.started = TRUE]
    /\ ewg' = [ewg EXCEPT !.wg = @ + emem.workers]
    /\ epc' = [g \in DOMAIN epc |->
                 IF g \in PoolWorkersOf(emem.workers) THEN "run" ELSE epc[g]]
    /\ UNCHANGED <<ech, eclosed, eloc, ehist, eprog, ehandlers>>

\* Submit(job): wp.jobQueue <- job
GP_Submit ==
    /\ ERunning("caller", "run")
    /\ emem.started
    /\ emem.submitted < MaxSubmits
    /\ Len(ech["jobQueue"]) < PoolCap(emem.workers)
    /\ ech' = [ech EXCEPT !["jobQueue"] = Append(@, emem.submitted + 1)]
    /\ emem' = [emem EXCEPT !.submitted = @ + 1]
    /\ UNCHANGED <<eclosed, epc, eloc, ewg, ehist, eprog, ehandlers>>

\* GetResult(): return <-wp.resultChan
GP_GetResult(g) ==
    /\ ERunning(g, "run")
    /\ g = "caller" => emem.started
    /\ ech["resultChan"] # << >>
    /\ ech' = [ech EXCEPT !["resultChan"] = Tail(@)]
    /\ ehist' = [ehist EXCEPT !.got = Append(@, Head(ech["resultChan"]))]
    /\ UNCHANGED <<eclosed, epc, eloc, ewg, emem, eprog, ehandlers>>

\* Close: close(wp.jobQueue)
GP_Close ==
    /\ ERunning("caller", "run")
    /\ emem.started
    /\ eclosed' = eclosed \cup {"jobQueue"}
    /\ epc' = [epc EXCEPT !["caller"] = "wait"]
    /\ UNCHANGED <<ech, eloc, ewg, emem, ehist, eprog, ehandlers>>

\* Close without the wait for the workers
GP_CloseResultsNoWait ==
    /\ ERunning("caller", "wait")
    /\ eclosed' = eclosed \cup {"resultChan"}
    /\ epc' = [epc EXCEPT !["caller"] = "done"]
    /\ UNCHANGED <<ech, eloc, ewg, emem, ehist, eprog, ehandlers>>

\* Close: wp.wg.Wait(); close(wp.resultChan)
GP_CloseResults ==
    /\ ERunning("caller", "wait")
    /\ ewg.wg = 0
    /\ eclosed' = eclosed \cup {"resultChan"}
    /\ epc' = [epc EXCEPT !["caller"] = "done"]
    /\ UNCHANGED <<ech, eloc, ewg, emem, ehist, eprog, ehandlers>>

\* worker: for job := range wp.jobQueue
GP_WorkerTake(w) ==
    /\ ERunning(w, "run")
    /\ ech["jobQueue"] # << >>
    /\ ech' = [ech EXCEPT !["jobQueue"] = Tail(@)]
    /\ eloc' = [eloc EXCEPT ![w] = Head(ech["jobQueue"])]
    /\ ehist' = [ehist EXCEPT !.taken = Append(@, Head(ech["jobQueue"]))]
    /\ epc' = [epc EXCEPT ![w] = "send"]
    /\ UNCHANGED <<eclosed, ewg, emem, eprog, ehandlers>>

\* worker: result := wp.processor(job); wp.resultChan <- result
\* (a send on a closed channel panics; the deferred wg.Done runs)
GP_WorkerSend(w) ==
    /\ ERunning(w, "send")
    /\ IF "resultChan" \in eclosed
       THEN /\ epc' = [epc EXCEPT ![w] = "panicked"]
            /\ ewg' = [ewg EXCEPT !.wg = @ - 1]
            /\ UNCHANGED <<ech, ehist>>
       ELSE /\ Len(ech["resultChan"]) < PoolCap(emem.workers)
            /\ ech' = [ech EXCEPT !["resultChan"] =
                         Append(@, Processor(eloc[w]))]
            /\ ehist' = [ehist EXCEPT !.sent = Append(@, Processor(eloc[w]))]
            /\ epc' = [epc EXCEPT ![w] = "run"]
            /\ UNCHANGED ewg
    /\ UNCHANGED <<eclosed, eloc, emem, eprog, ehandlers>>

\* worker: jobQueue is closed and drained; defer wp.wg.Done()
GP_WorkerExit(w) ==
    /\ ERunning(w, "run")
    /\ ech["jobQueue"] = << >> /\ "jobQueue" \in eclosed
    /\ epc' = [epc EXCEPT ![w] = "done"]
    /\ ewg' = [ewg EXCEPT !.wg = @ - 1]
    /\ UNCHANGED <<ech, eclosed, eloc, emem, ehist, eprog, ehandlers>>

\* the steps of the pool and of the concurrent consumer
GenericPoolRun ==
    \/ \E w \in PoolWorkersOf(emem.workers) :
          GP_WorkerTake(w) \/ GP_WorkerSend(w) \/ GP_WorkerExit(w)
    \/ GP_GetResult("consumer")
    \/ GP_CloseResults

GenericPoolNext ==
    \/ GP_Start \/ GP_Submit \/ GP_GetResult("caller") \/ GP_Close
    \/ GenericPoolRun

GenericPoolInit ==
    /\ InitFuture /\ InitActor /\ InitNoPipeline /\ InitNoMerge
    /\ InitObservable /\ InitNoChain /\ InitNoStateful /\ InitNoStages
    /\ InitGenericPool

SpecGenericPool == GenericPoolInit /\ [][GenericPoolNext]_vars
\* every goroutine that can run is scheduled
FairGenericPool == SpecGenericPool /\ WF_vars(GenericPoolRun)

(***************************************************************************)
(* mutexExample (07_actor.go:727-758): five goroutines increment counter   *)
(* under mu; the caller waits for them, then locks nestedMu twice          *)
(***************************************************************************)
\* for i := 0; i < 5; i++
NumCounters == 5
CounterIds == <<"g0", "g1", "g2", "g3", "g4">>
Counters == {CounterIds[i] : i \in 1..NumCounters}

InitMutex ==
    \E iterations \in 1..MaxIterations :
       /\ ech = << >>
       /\ eclosed = {}
       /\ epc = [g \in Counters \cup {"main"} |->
                   IF g = "main" THEN "spawn" ELSE "idle"]
       /\ eloc = [g \in Counters \cup {"main"} |-> 0]
       /\ ewg = [wg |-> 0]
       /\ emem = [counter |-> 0, mu |-> FALSE, nestedMu |-> FALSE,
                  iterations |-> iterations]
       /\ ehist = << >>
       /\ eprog = << >>
       /\ ehandlers = << >>

\* wg.Add(1); go func(id int) {...}(i)
MX_Spawn ==
    /\ ERunning("main", "spawn")
    /\ eloc["main"] < NumCounters
    /\ ewg' = [ewg EXCEPT !.wg = @ + 1]
    /\ eloc' = [eloc EXCEPT !["main"] = @ + 1]
    /\ epc' = [epc EXCEPT ![CounterIds[eloc["main"] + 1]] = "run"]
    /\ UNCHANGED <<ech, eclosed, emem, ehist, eprog, ehandlers>>

\* mu.Lock(): granted only while mu is unlocked
MX_Lock(g) ==
    /\ ERunning(g, "run")
    /\ eloc[g] < emem.iterations
    /\ ~emem.mu
    /\ emem' = [emem EXCEPT !.mu = TRUE]
    /\ epc' = [epc EXCEPT ![g] = "locked"]
    /\ UNCHANGED <<ech, eclosed, eloc, ewg, ehist, eprog, ehandlers>>

\* counter++; mu.Unlock(); j++
MX_Unlock(g) ==
    /\ ERunning(g, "locked")
    /\ emem' = [emem EXCEPT !.counter = @ + 1, !.mu = FALSE]
    /\ eloc' = [eloc EXCEPT ![g] = @ + 1]
    /\ epc' = [epc EXCEPT ![g] = "run"]
    /\ UNCHANGED <<ech, eclosed, ewg, ehist, eprog, ehandlers>>

\* the loop ends; defer wg.Done()
MX_Done(g) ==
    /\ ERunning(g, "run")
    /\ eloc[g] = emem.iterations
    /\ ewg' = [ewg EXCEPT !.wg = @ - 1]
    /\ epc' = [epc EXCEPT ![g] = "done"]
    /\ UNCHANGED <<ech, eclosed, eloc, emem, ehist, eprog, ehandlers>>

\* wg.Wait()
MX_Wait ==
    /\ ERunning("main", "spawn")
    /\ eloc["main"] = NumCounters
    /\ ewg.wg = 0
    /\ epc' = [epc EXCEPT !["main"] = "lock1"]
    /\ UNCHANGED <<ech, eclosed, eloc, ewg, emem, ehist, eprog, ehandlers>>

\* a Lock that is granted to the goroutine that already holds the mutex
MX_NestedLockReentrant ==
    /\ ~crashed /\ UNCHANGED notExamples
    /\ epc["main"] \in {"lock1", "lock2"}
    /\ emem' = [emem EXCEPT !.nestedMu = TRUE]
    /\ epc' = [epc EXCEPT !["main"] =
                 IF epc["main"] = "lock1" THEN "lock2" ELSE "acquired"]
    /\ UNCHANGED <<ech, eclosed, eloc, ewg, ehist, eprog, ehandlers>>

\* nestedMu.Lock(), at line 754 and again at line 756: sync.Mutex has no
\* owner, and Lock is granted only while the mutex is unlocked
MX_NestedLock ==
    /\ ~crashed /\ UNCHANGED notExamples
    /\ epc["main"] \in {"lock1", "lock2"}
    /\ ~emem.nestedMu
    /\ emem' = [emem EXCEPT !.nestedMu = TRUE]
    /\ epc' = [epc EXCEPT !["main"] =
                 IF epc["main"] = "lock1" THEN "lock2" ELSE "acquired"]
    /\ UNCHANGED <<ech, eclosed, eloc, ewg, ehist, eprog, ehandlers>>

\* with no goroutine left that can run, the Go runtime may end the process
\* ("all goroutines are asleep - deadlock!"); whether it does depends on
\* the other goroutines of the process
MX_Deadlock ==
    /\ ~crashed
    /\ epc["main"] = "lock2"
    /\ emem.nestedMu
    /\ \A g \in Counters : epc[g] = "done"
    /\ crashed' = TRUE
    /\ UNCHANGED <<fvars, avars, xvars>>

MutexNext ==
    \/ MX_Spawn \/ MX_Wait \/ MX_NestedLock \/ MX_Deadlock
    \/ \E g \in Counters : MX_Lock(g) \/ MX_Unlock(g) \/ MX_Done(g)

MutexInit ==
    /\ InitFuture /\ InitActor /\ InitNoPipeline /\ InitNoMerge
    /\ InitObservable /\ InitNoChain /\ InitNoStateful /\ InitNoStages
    /\ InitMutex

SpecMutex == MutexInit /\ [][MutexNext]_vars

(***************************************************************************)
(* A burst of Sends from one sender into the mailbox of an actor that      *)
(* another goroutine starts and stops                                      *)
(***************************************************************************)
Sender == 1
Owner == 2

MB_Send == aseq[Sender] < MaxBurst /\ CallSend(Sender, "string")
MB_Start == nStart = 0 /\ CallStart(Owner)
MB_Stop == nStop = 0 /\ CallStop(Owner)

MailboxNext ==
    \/ MB_Send \/ MB_Start \/ MB_Stop
    \/ Send_Enqueue(Sender)
    \/ Start_Add(Owner) \/ Start_Go(Owner)
    \/ Stop_Close(Owner) \/ Stop_Wait(Owner)
    \/ \E i \in Loops :
         \/ Loop_Receive(i) \/ Loop_Dispatch(i) \/ Loop_HandlerReturn(i)
         \/ Loop_Stop(i)

SpecMailbox == Init /\ [][MailboxNext]_vars

\* a pipeline of goroutines; the scheduler runs every goroutine that can
\* take a step
PipelineNext ==
    \/ Gen_Next
    \/ \E s \in Senders :
         Stage_Send(s) \/ Stage_Handoff(s) \/ Stage_Close(s)
    \/ \E s \in Receivers :
         Stage_Receive(s) \/ Stage_InputClosed(s)

PipelineInit ==
    /\ InitFuture /\ InitActor /\ InitPipeline /\ InitNoMerge
    /\ InitObservable /\ InitNoChain /\ InitNoStateful
    /\ InitNoStages /\ InitNoExample

SpecPipeline == PipelineInit /\ [][PipelineNext]_vars

FairPipeline == SpecPipeline /\ WF_vars(PipelineNext)

\* fanInFanOutCSPExample
MergeNext ==
    \/ MGen_Next \/ MGen_Send \/ MGen_Close
    \/ FanOut_Receive \/ FanOut_Send \/ FanOut_InputClosed \/ FanOut_Close
    \/ \E k \in Workers :
         \/ Worker_Receive(k) \/ Worker_Send(k) \/ Worker_InputClosed(k)
         \/ Drain_Receive(k) \/ Drain_InputClosed(k)
    \/ FanIn_Wait \/ FanIn_Close
    \/ Collect_Receive \/ Collect_Closed
    \/ ProcessExit

MergeInit ==
    /\ InitFuture /\ InitActor /\ InitNoPipeline /\ InitMerge
    /\ InitObservable /\ InitNoChain /\ InitNoStateful
    /\ InitNoStages /\ InitNoExample

SpecMerge == MergeInit /\ [][MergeNext]_vars

\* one goroutine emits 1, 2, 3, ... on an Observable, another subscribes,
\* and the subscribers read their channels at their own pace
BroadcastNext ==
    \/ Len(och) < MaxSubs /\ Subscribe(Subscriber)
    \/ nemit < MaxEmits /\ Emit_RLock(Emitter, nemit + 1)
    \/ Emit_Send(Emitter)
    \/ Emit_Return(Emitter)
    \/ \E c \in 1 .. MaxSubs : Sub_Receive(c)

SpecBroadcast == Init /\ [][BroadcastNext]_vars

\* S subscribers are registered, then one goroutine emits 1, 2, 3, ...; each
\* subscriber reads at its own pace or not at all
MulticastNext ==
    \/ nemit = 0 /\ Len(och) < MaxSubs /\ Subscribe(Subscriber)
    \/ nemit < MaxEmits /\ Emit_RLock(Emitter, nemit + 1)
    \/ Emit_Send(Emitter)
    \/ Emit_Return(Emitter)
    \/ \E c \in 1 .. MaxSubs : Sub_Receive(c)

SpecMulticast == Init /\ [][MulticastNext]_vars

\* goroutines that call Subscribe, Emit and Close of one Observable in any
\* order and at the same time, and the subscribers' range loops
CloseNext ==
    \/ \E t \in OTasks :
         \/ Len(och) < MaxSubs /\ Subscribe(t)
         \/ nemit < BusEmits /\ Emit_RLock(t, nemit + 1)
         \/ Emit_Send(t)
         \/ Emit_Return(t)
         \/ nclose < MaxCloses /\ Close_Lock(t)
         \/ Close_CloseOne(t)
         \/ Close_Unlock(t)
    \/ \E c \in 1 .. MaxSubs : Sub_Receive(c) \/ Sub_Closed(c)

SpecClose == Init /\ [][CloseNext]_vars

\* Scenario B: one goroutine subscribes three observers on a Subject, then
\* calls Next("a"), Next("b"), Complete(); the observers range over their
\* channels
ScenarioBSubs == 3
ScenarioBValues == <<"a", "b">>

SB_Subscribe == nemit = 0 /\ Len(och) < ScenarioBSubs /\ Subscribe(Emitter)

SB_Next ==
    /\ Len(och) = ScenarioBSubs
    /\ nemit < Len(ScenarioBValues)
    /\ Subject_Next(Emitter, ScenarioBValues[nemit + 1])

SB_Complete ==
    /\ Len(och) = ScenarioBSubs
    /\ nemit = Len(ScenarioBValues)
    /\ Complete_Emit(Emitter)

\* a Complete that closes before it emits the marker
SB_CloseFirst ==
    /\ nemit = Len(ScenarioBValues)
    /\ nclose = 0
    /\ Complete_Close(Emitter)

SB_Close ==
    /\ nemit = Len(ScenarioBValues) + 1
    /\ nclose = 0
    /\ Complete_Close(Emitter)

ScenarioBNext ==
    \/ SB_Subscribe
    \/ SB_Next
    \/ SB_Complete
    \/ Emit_Send(Emitter)
    \/ Emit_Return(Emitter)
    \/ SB_Close
    \/ Close_CloseOne(Emitter)
    \/ Close_Unlock(Emitter)
    \/ \E c \in 1 .. ScenarioBSubs : Sub_Receive(c) \/ Sub_Closed(c)

SpecScenarioB == Init /\ [][ScenarioBNext]_vars

\* the observers' goroutines and the driver are scheduled
FairScenarioB == SpecScenarioB /\ WF_vars(ScenarioBNext)

\* composeFutureExample: the chain's goroutines and the caller
ChainNext ==
    \/ Chain_First
    \/ \E i \in DOMAIN cpc :
         \/ Chain_GetWait(i) \/ Chain_GetRLock(i) \/ Chain_GetReturn(i)
         \/ Chain_Branch(i)
         \/ Chain_Lock(i) \/ Chain_Write(i) \/ Chain_Close(i)
         \/ Chain_Unlock(i)

ChainInit ==
    /\ InitFuture /\ InitActor /\ InitNoPipeline /\ InitNoMerge
    /\ InitObservable /\ InitChain /\ InitNoStateful
    /\ InitNoStages /\ InitNoExample

SpecChain == ChainInit /\ [][ChainNext]_vars

\* every goroutine of the chain is scheduled
FairChain == SpecChain /\ WF_vars(ChainNext)

(***************************************************************************)
(* Properties                                                              *)
(***************************************************************************)
IsPrefix(a, b) == Len(a) <= Len(b) /\ a = SubSeq(b, 1, Len(a))
BySender(s, t) == SelectSeq(s, LAMBDA m : m.from = t)
WithHandler(s) == SelectSeq(s, LAMBDA m : m.type \in handlers)

\* C1: a Future is assigned at most once: its slots are written at most
\* once, it never holds both a result and an error, and all the Gets that
\* have returned have returned the same (result, err) pair.
C1_AssignedAtMostOnce ==
    /\ fwrites <= 1
    /\ ~(result # Nil /\ err # Nil)
    /\ Cardinality(gets) <= 1

\* C2: a SetResult / SetError on a Future that is already assigned is
\* rejected: it does not panic (no attempt to close done a second time) and
\* the value stored by the first assignment is not overwritten.
C2_SecondSetRejected ==
    /\ \A t \in FTasks : fpc[t] \notin {"sr_panic", "se_panic", "panicked"}
    /\ fcloses <= 1
    /\ (done /\ mu.writer = NoTask) => <<result, err>> = firstSet

C4_GetReturnsAssigned ==
    /\ gets # {} => done
    /\ done => firstSet # <<Nil, Nil>>
    /\ \A p \in gets : p = firstSet /\ (p[1] = Nil \/ p[2] = Nil)

\* C5: in futureTimeoutExample a timeout does not disturb the assignment:
\* the producer's SetResult(v) never panics and, once it has returned, the
\* Future holds (v, nil); a consumer whose GetWithTimeout timed out before
\* the assignment gets (v, nil) from its subsequent Get.
C5_TimeoutIndependence ==
    /\ fpc[Producer] \notin {"sr_panic", "panicked"}
    /\ (fcalls[Producer] = 1 /\ fpc[Producer] = "idle") =>
          (done /\ result = farg[Producer] /\ err = Nil)
    /\ \A t \in tout :
          (fcalls[t] = 2 /\ fpc[t] = "idle") =>
             fret[t] = [kind |-> "value", r |-> farg[Producer], e |-> Nil]

\* a consumer timed out before the assignment and its later Get returned
C5_Witness ==
    \E t \in tout :
       /\ fcalls[t] = 2 /\ fpc[t] = "idle"
       /\ fret[t].kind = "value"
       /\ fpc[Producer] = "idle" /\ fcalls[Producer] = 1

\* C6: Stop joins the dispatch loop: whenever a Stop has returned no
\* dispatch loop was alive, and a Stop called on a Running actor does not
\* end without returning.
C6_StopJoins ==
    /\ running = 0
    /\ \A t \in joined : apc[t] # "panicked"

ScenarioADone == nStop = 1 /\ apc[Driver] = "idle"

\* C7 as stated: when the Stop of Scenario A has returned, exactly three
\* handler invocations have happened, in send order, and the loop is gone.
C7_ThreeInvocations ==
    ScenarioADone =>
       /\ Len(handled) = 3
       /\ handled = sent
       /\ Alive = {} /\ wg = 0

\* C7 amended: when the Stop of Scenario A has returned, at most three
\* handler invocations have happened, they are a prefix of the send order,
\* the messages not handled are still in the mailbox, and the loop is gone.
C7_PrefixInvocations ==
    ScenarioADone =>
       /\ Len(sent) = 3
       /\ \A k \in 1 .. 3 : sent[k].seq = k
       /\ IsPrefix(handled, sent)
       /\ sent = handled \o mailbox
       /\ Alive = {} /\ wg = 0 /\ nloops = 1

\* Stop has returned after all three messages were handled
C7_Witness == ScenarioADone /\ Len(handled) = 3 /\ lpc[1] = "exited"

\* C8: stopping is idempotent: no Stop call panics.
C8_StopIdempotent == \A t \in ATasks : aret[t] # "panic"

\* C9: a Send called on a Stopped actor returns a failure to its caller and
\* is never left blocked on a full mailbox.
C9_SendAfterStoppedFails ==
    \A t \in late :
       /\ apc[t] = "idle" => aret[t] = "stopped"
       /\ ~(apc[t] = "send" /\ Len(mailbox) = MailboxCap)

\* C10: the mailbox never holds more than MailboxCap messages, every
\* message a Send has delivered is in the mailbox or has been taken by a
\* dispatch loop (in order, none dropped), and while the mailbox is full a
\* caller inside Send stays inside Send.
C10_Backpressure ==
    /\ [](Len(mailbox) <= MailboxCap /\ sent = taken \o mailbox)
    /\ [][\A t \in ATasks :
            (apc[t] = "send" /\ Len(mailbox) = MailboxCap) =>
               apc'[t] = "send"]_vars

\* the sender is blocked on a full mailbox after the loop has taken messages
C10_Witness ==
    /\ Len(mailbox) = MailboxCap
    /\ apc[Sender] = "send"
    /\ taken # << >>

C12_HandlerFailureIsolated == \A i \in Loops : lpc[i] # "panicked"

\* C13: the lifecycle is Created -> Running -> Stopping -> Stopped: the
\* actor has at most one dispatch loop, only Start leaves Created, and
\* Stopped is terminal.
C13_Lifecycle ==
    /\ [](nloops <= 1 /\ wg <= 1)
    /\ [][Stopped => Stopped']_vars

\* C14: at most one handler invocation of the actor is in progress.
C14_SequentialProcessing ==
    Cardinality({i \in Loops : lpc[i] = "handle"}) <= 1

(***************************************************************************)
(* Pipelines: what a stage is expected to have sent                        *)
(***************************************************************************)
\* the values 1 .. n in the order the generator's loop sends them
Items(n) == [i \in 1 .. n |-> i]

\* a sequence passed through one stage
RECURSIVE Through(_, _)
Through(fn, seq) ==
    IF seq = <<>> THEN <<>>
    ELSE (IF Passes(fn, Head(seq)) THEN <<Apply(fn, Head(seq))>> ELSE <<>>)
            \o Through(fn, Tail(seq))

\* what stage s sends when the whole input has gone through stages 1 .. s
RECURSIVE Expected(_)
Expected(s) ==
    IF s = 0 THEN Items(cfg.n) ELSE Through(cfg.fns[s], Expected(s - 1))

\* the stages that transform every value
Transforms == {s \in Senders : s > 0 /\ cfg.fns[s] \in {"double", "square"}}

Terminated(s) == spc[s] \in {"close", "done"}
AllClosed == \A c \in DOMAIN chans : chans[c].closed
AllDone == \A s \in DOMAIN spc : spc[s] = "done"

\* C16: a transformation stage reads its input until it is closed, writes
\* fn(x) for each x in order, and closes its output exactly once, after the
\* input is closed and the last element is written; 1, 2, 3 through x*x
\* gives 1, 4, 9.
C16_Transform ==
    /\ \A s \in Transforms :
         /\ IsPrefix(got[s], put[s - 1])
         /\ IsPrefix(put[s], Through(cfg.fns[s], got[s]))
         /\ Len(put[s]) >= Len(got[s]) - 1
         /\ ncl[s + 1] <= 1
         /\ spc[s] # "panicked"
         /\ chans[s + 1].closed =>
              /\ chans[s].closed /\ chans[s].buf = <<>>
              /\ got[s] = put[s - 1]
              /\ put[s] = Through(cfg.fns[s], got[s])
    /\ (cfg.fns = <<"square">> /\ cfg.n = 3 /\ spc[Last] = "done") =>
          got[Last] = <<1, 4, 9>>

\* the collector has read 1, 4, 9 from the transformation of 1, 2, 3
C16_Witness ==
    /\ cfg.fns = <<"square">> /\ cfg.n = 3
    /\ chans[2].closed /\ ncl[2] = 1
    /\ spc[Last] = "done"
    /\ got[Last] = <<1, 4, 9>>

\* C17: the generator sends each value once, in order, then closes its
\* channel and never sends after closing; the stage ranging over the
\* channel leaves its loop, and only after it has received every value.
C17_GeneratedStream ==
    /\ [](/\ IsPrefix(put[0], Items(cfg.n))
          /\ spc[0] # "panicked"
          /\ ncl[1] <= 1
          /\ chans[1].closed => put[0] = Items(cfg.n)
          /\ Terminated(1) => got[1] = Items(cfg.n))
    /\ [][chans[1].closed => put'[0] = put[0]]_vars
    /\ <>Terminated(1)

\* the generator of pipelineCSPExample has sent 1 .. 10 and closed, and the
\* filter stage has left its range loop
C17_Witness ==
    /\ cfg.n = StageItems
    /\ chans[1].closed
    /\ Terminated(1)
    /\ got[1] = Items(StageItems)

\* C18: along a linear chain every stage receives what its predecessor
\* sent, in that order, and sends the images in order; once the source has
\* closed its channel every channel is eventually closed and every stage
\* goroutine has returned.
C18_ChainOrderAndShutdown ==
    /\ [](/\ \A s \in Receivers : IsPrefix(got[s], put[s - 1])
          /\ \A s \in Senders : IsPrefix(put[s], Expected(s))
          /\ AllDone => got[Last] = Expected(Last - 1))
    /\ (chans[1].closed ~> (AllClosed /\ AllDone))

\* pipelineCSPExample has shut down and its output is 4, 16, 36, 64, 100
C18_Witness ==
    /\ cfg.fns = <<"even", "square">>
    /\ AllClosed /\ AllDone
    /\ got[Last] = <<4, 16, 36, 64, 100>>

RECURSIVE SumLen(_, _)
SumLen(f, S) ==
    IF S = {} THEN 0
    ELSE LET k == CHOOSE x \in S : TRUE IN Len(f[k]) + SumLen(f, S \ {k})

\* C15: the merge of the K streams output1..K delivers exactly the sum of
\* their element counts on merged and then closes merged; merged is closed
\* only after every input is closed and every forwarding worker returned.
C15_MergeCompletion ==
    /\ mch[MergedCh].closed =>
         \A k \in Workers : mch[k].closed /\ mpc[Worker(k)] = "done"
    /\ mpc[Collector] = "done" =>
         Len(collected) = SumLen(dispatched, Workers)
    /\ \A k \in Workers : mpc[Worker(k)] # "panicked"

\* some IsDone call has returned true and nothing was called since by its
\* goroutine
SawDone == \E u \in FTasks : fret[u].kind = "isdone" /\ fret[u].r = 1

\* C19: IsDone is a non-blocking poll: it can always return at once, it
\* returns true exactly when the done signal has been given, a true answer
\* is never followed by a false one, and a Get called after IsDone returned
\* true does not wait for the done signal.
C19_IsDonePoll ==
    /\ [](\A t \in FTasks : (~crashed /\ fpc[t] = "idle") => ENABLED IsDone(t))
    /\ [](SawDone => done /\ fwrites >= 1)
    /\ [][done => done']_vars
    /\ [][\A t \in FTasks :
            (fcalls'[t] = fcalls[t] + 1 /\ fpc'[t] = "idle") =>
               /\ fret'[t].kind = "isdone"
               /\ fret'[t].r = (IF done THEN 1 ELSE 0)]_vars
    /\ [](\A t \in FTasks :
            (~crashed /\ SawDone /\ fpc[t] = "g_wait") => ENABLED Get_Wait(t))

\* one goroutine got true from IsDone and another is in Get, about to pass
\* the done signal
C19_Witness ==
    /\ ~crashed
    /\ \E u, t \in FTasks :
         /\ u # t
         /\ fret[u].kind = "isdone" /\ fret[u].r = 1
         /\ fpc[t] = "g_wait"

\* the last value of a non-empty sequence, 0 of the empty one
LastOf(seq) == IF seq = <<>> THEN 0 ELSE seq[Len(seq)]

\* C20: Emit never blocks: it can always take its next step; for the
\* subscriber it is at it appends the value when the buffer has room and
\* leaves the buffer alone when it holds SubCap values, no other
\* subscriber's channel is touched by that step, and Emit returns only
\* after it has been at every subscriber.
C20_EmitNeverBlocks ==
    /\ [](\A t \in OTasks :
            /\ (~crashed /\ opc[t] = "idle") => ENABLED Emit_RLock(t, 1)
            /\ (~crashed /\ opc[t] = "emit") =>
                  ENABLED Emit_Send(t) \/ ENABLED Emit_Return(t))
    /\ [][\A t \in OTasks :
            (opc[t] = "emit" /\ oidx'[t] = oidx[t] + 1) =>
               LET c == observers[oidx[t]] IN
                 /\ och'[c].buf = IF Len(och[c].buf) < SubCap
                                  THEN Append(och[c].buf, oval[t])
                                  ELSE och[c].buf
                 /\ \A d \in DOMAIN och : d # c => och'[d] = och[d]]_vars
    /\ [][\A t \in OTasks :
            (opc[t] = "emit" /\ opc'[t] = "idle") =>
               oidx[t] = Len(observers) + 1]_vars
    /\ [](\A t \in OTasks : opc[t] # "panicked")

\* the last Emit has returned: it found one subscriber's buffer full and
\* dropped the value for it, and the other subscriber has the value
C20_Witness ==
    /\ opc[Emitter] = "idle"
    /\ nemit = SubCap + 1
    /\ \E c, d \in DOMAIN och :
         /\ Len(och[c].buf) = SubCap
         /\ LastOf(och[c].buf) = SubCap
         /\ LastOf(och[d].buf) = nemit

\* the values a subscriber has been given: those it has read and those
\* waiting in its channel
Given(c) == received[c] \o och[c].buf
Elems(seq) == {seq[i] : i \in 1 .. Len(seq)}
Increasing(seq) == \A i \in 1 .. Len(seq) - 1 : seq[i] < seq[i + 1]

\* the emissions that have been at subscriber c
Attempted(c) ==
    IF opc[Emitter] = "emit" /\ oidx[Emitter] <= c THEN nemit - 1 ELSE nemit

\* C21: with S subscribers and the emissions 1 .. M of one producer, every
\* subscriber is given a subsequence of the emissions (no duplicate, no
\* reordering), namely the emissions that did not find its buffer full, and
\* a subscriber whose buffer was never full is given all of them in order.
C21_LossyMulticast ==
    \A c \in DOMAIN och :
      /\ Increasing(Given(c))
      /\ Elems(Given(c)) \cup Elems(dropped[c]) = 1 .. Attempted(c)
      /\ Elems(Given(c)) \cap Elems(dropped[c]) = {}
      /\ dropped[c] = <<>> => Given(c) = Items(Attempted(c))

\* after MaxEmits emissions a subscriber that read nothing has lost the
\* last one and a subscriber that kept reading has been given them all
C21_Witness ==
    /\ opc[Emitter] = "idle"
    /\ nemit = SubCap + 1
    /\ \E c, d \in DOMAIN och :
         /\ received[c] = <<>>
         /\ dropped[c] = <<SubCap + 1>>
         /\ och[c].buf = Items(SubCap)
         /\ dropped[d] = <<>>
         /\ received[d] # <<>>
         /\ Given(d) = Items(SubCap + 1)

\* C22: Close is idempotent and final: no channel is closed twice and no
\* call panics, closed stays set, once a Close has returned every
\* subscriber channel is closed, after the bus is marked closed no channel
\* is added and no buffer grows, and nothing is sent on a closed channel.
C22_CloseIdempotentFinal ==
    /\ [](/\ \A c \in DOMAIN och : ocl[c] <= 1
          /\ \A t \in OTasks : opc[t] # "panicked"
          /\ \A t \in OTasks :
               oret[t] \in {"closed", "ignored", "nil"} =>
                  /\ oclosed
                  /\ \A c \in DOMAIN och : och[c].closed /\ ocl[c] = 1)
    /\ [][oclosed => oclosed']_vars
    /\ [][oclosed =>
            /\ Len(och') = Len(och)
            /\ \A c \in DOMAIN och : Len(och'[c].buf) <= Len(och[c].buf)]_vars
    /\ [][\A c \in DOMAIN och :
            och[c].closed =>
               och'[c].closed /\ Len(och'[c].buf) <= Len(och[c].buf)]_vars

\* two Close calls have returned, a subscriber channel with a value in it
\* is closed, and an Emit or Subscribe made afterwards was turned down
C22_Witness ==
    /\ nclose = MaxCloses
    /\ \E t, u, v \in OTasks :
         /\ t # u
         /\ oret[t] = "closed" /\ oret[u] = "closed"
         /\ oret[v] \in {"ignored", "nil"}
    /\ \E c \in DOMAIN och : received[c] # <<>> /\ sdone[c]

\* what an observer of Scenario B that kept up reads
ScenarioBStream == Append(ScenarioBValues, "COMPLETE")

\* C23: in Scenario B every observer reads "a", "b", the completion marker
\* in that order and nothing after the marker, its channel is closed only
\* once the marker has been sent on it, and every observer ends by seeing
\* its channel closed.
C23_ScenarioB ==
    /\ [](\A c \in DOMAIN och :
            /\ IsPrefix(received[c], ScenarioBStream)
            /\ dropped[c] = <<>>
            /\ och[c].closed => Given(c) = ScenarioBStream
            /\ sdone[c] => received[c] = ScenarioBStream)
    /\ [](\A t \in OTasks : opc[t] # "panicked")
    /\ <>(Len(och) = ScenarioBSubs /\ \A c \in DOMAIN och : sdone[c])

\* Complete has returned and the three observers have read "a", "b", the
\* marker and seen their channels closed
C23_Witness ==
    /\ oret[Emitter] = "closed"
    /\ Len(och) = ScenarioBSubs
    /\ \A c \in DOMAIN och : sdone[c] /\ received[c] = <<"a", "b", "COMPLETE">>

\* C24: in fanInFanOutCSPExample no worker is ever at its send on merged
\* with merged closed, and none has panicked in that send.
C24_NoSendOnClosedMerged ==
    \A k \in Workers :
      /\ ~(mpc[Worker(k)] = "send" /\ mch[MergedCh].closed)
      /\ mpc[Worker(k)] # "panicked"

\* C25: in a chain of Futures every Future is assigned exactly once, a
\* Future is assigned only after the one before it is done, and the last
\* Future carries the error of the first one, or none when the first one
\* has none.
C25_FutureChain ==
    /\ [](\A i \in ChainFutures :
            /\ cwrites[i] <= 1 /\ ccloses[i] <= 1
            /\ cpc[i] # "panicked"
            /\ cfut[i].done => cwrites[i] = 1
            /\ (i > 1 /\ cwrites[i] > 0) => cfut[i - 1].done
            /\ cfut[i].done => cfut[i].err = cfut[1].err
            /\ cfut[i].done => (cfut[i].err # Nil <=> cfut[i].result = Nil))
    /\ <>(\A i \in ChainFutures : cfut[i].done /\ cwrites[i] = 1)
    /\ <>(cpc[ChainCaller] = "done" /\ cloc[ChainCaller].e = cfut[1].err)

\* the first Future of a chain of three failed and the caller got that
\* error from the last one
C25_Witness ==
    /\ cn = 3
    /\ cfut[1].err # Nil
    /\ cpc[ChainCaller] = "done"
    /\ cloc[ChainCaller] = [v |-> Nil, e |-> cfut[1].err]

\* the positions of a goroutine inside Get and GetWithTimeout
ReaderPcs == {"g_wait", "g_rlock", "g_ret", "gt_select", "gt_rlock", "gt_ret"}

\* goroutine t takes a step of Get, GetWithTimeout or IsDone
ReaderStep(t) ==
    \/ fpc[t] \in ReaderPcs /\ fpc'[t] # fpc[t]
    \/ fpc[t] = "idle" /\ fpc'[t] \in ReaderPcs
    \/ fpc[t] = "idle" /\ fpc'[t] = "idle" /\ fcalls'[t] = fcalls[t] + 1

\* C26: reading a Future has no effect on it: every step of Get, of
\* GetWithTimeout (returning the value or the timeout error) and of IsDone
\* leaves result, err and the done signal as they are.
C26_ReadersLeaveFuture ==
    [][\A t \in FTasks :
         ReaderStep(t) =>
            /\ result' = result /\ err' = err /\ done' = done
            /\ fwrites' = fwrites /\ fcloses' = fcloses
            /\ mu'.writer = mu.writer]_vars

\* one reader timed out, the Future was assigned afterwards, and a later
\* Get returned the assigned value
C26_Witness ==
    /\ done /\ result # Nil /\ fwrites = 1
    /\ \E t, u \in FTasks :
         /\ fret[t].kind = "timeout"
         /\ fret[u] = [kind |-> "value", r |-> result, e |-> Nil]

\* the Stop calls that have returned: those made, less those still inside
\* Stop and those that panicked at close(a.stop)
StopsReturned ==
    nStop - Cardinality({t \in ATasks :
                            apc[t] \in {"stop_close", "stop_wait", "panicked"}})

\* C27: once a Stop has returned no handler of the actor is invoked again.
C27_NoHandlerAfterStop ==
    [][StopsReturned > 0 => handled' = handled]_vars

\* basicActorExample has come to its end: nothing can take a step any more
BasicActorOver == ~ENABLED BasicActorNext

\* C28: basicActorExample always terminates cleanly: no close(a.stop)
\* panics, and when the example can go no further the driver's Stop has
\* returned and the dispatch goroutine has exited.
C28_BasicActorTerminates ==
    /\ ~crashed
    /\ apc[Driver] # "panicked"
    /\ \A i \in Loops : lpc[i] # "panicked"
    /\ BasicActorOver =>
         /\ nStop = 1 /\ apc[Driver] = "idle"
         /\ Alive = {}

\* the value the latest Set of key k among the first n messages stored, and
\* Nil when there is none
RECURSIVE LastSet(_, _)
LastSet(n, k) ==
    IF n = 0 THEN Nil
    ELSE IF script[n].op = "set" /\ script[n].key = k THEN script[n].value
    ELSE LastSet(n - 1, k)

\* the position in the script of the j-th Get
GetPos(j) == CHOOSE n \in 1 .. Len(script) :
                 script[n].op = "get" /\ Gets(n) = j

\* the Gets whose handler has been invoked, and those whose handler is running
GetsHandled == Len(SelectSeq(handled, LAMBDA m : m.type = "get"))
GetsInHandler ==
    Cardinality({i \in Loops : lpc[i] = "handle" /\ lmsg[i].type = "get"})

\* C29: in statefulActorExample the response to a Get of key k is the value
\* of the latest Set of k the driver sent before it (nil only when it sent
\* none), and every Get whose handler has run got exactly one response
C29_ReadYourWrites ==
    /\ \A j \in 1 .. Len(sgot) :
         sgot[j] = LastSet(GetPos(j) - 1, script[GetPos(j)].key)
    /\ Len(sgot) + Len(respch) = GetsHandled - GetsInHandler

\* a key is set twice and then read: the driver received the second value
C29_Witness ==
    /\ script = <<SetMessage("name", 1), SetMessage("name", 2),
                  GetMessage("name")>>
    /\ sgot = <<2>>

\* the items of the messages stage s has handled, in order
ItemsOf(s) == [i \in 1 .. Len(ghandled[s]) |-> ghandled[s][i].item]
\* the items the driver has sent to stage1, in order
ItemsSent == [d \in 1 .. gn |-> d]
AnyStopped == \E s \in Stages : gstop[s]

\* the stages have handled the items in the order sent, none twice, each
\* item having passed through the earlier stages once each
HandledInOrder ==
    \A s \in Stages :
       /\ Len(ghandled[s]) <= gn
       /\ ItemsOf(s) = SubSeq(ItemsSent, 1, Len(ghandled[s]))
       /\ \A i \in 1 .. Len(ghandled[s]) :
            ghandled[s][i].by = [k \in 1 .. s - 1 |-> s - k]
AllHandled == \A s \in Stages : ItemsOf(s) = ItemsSent

\* C30: in the stage1 -> stage2 -> stage3 actor pipeline every stage handles
\* the items in the order they were sent to stage1 and none twice, and
\* unless an actor is stopped every item is handled by all three stages
C30_ActorPipeline ==
    /\ [](HandledInOrder)
    /\ <>(AnyStopped \/ AllHandled)

\* the four items of the example have gone through the three stages in
\* order before any actor is stopped
C30_Witness ==
    /\ gn = 4
    /\ ~AnyStopped
    /\ AllHandled
    /\ ItemsOf(NumStages) = <<1, 2, 3, 4>>

\* the "game over" branch has been taken: pingActor has handled a pong
\* message whose count is not below five
GameOver ==
    \E i \in 1 .. Len(ehist["ping"]) : ehist["ping"][i].count >= GameRounds

\* C31: in actorCommunicationExample the first message the driver sends
\* starts the exchange, and unless the actors are stopped first the
\* "game over" branch is eventually reached
C31_GameStarts ==
    (eprog[3] = ExampleFirst) => <>(GameOver \/ eclosed # {})

\* the bank's handler has executed every BankMessage of the driver, no
\* client handler is waiting for a response, and the three Stops returned
BankDone ==
    /\ Len(ehist["bank"]) = Len(BankOps)
    /\ \A a \in {"client1", "client2"} :
         epc[a] # "handle"
    /\ eloc["main"] = Len(eprog)

\* C32: in comprehensiveActorExample every BankMessage of the driver is
\* eventually executed by the bank's handler, no client handler waits for
\* ever on the Response channel, and the Stops of bank, client1 and client2
\* all return
C32_BankCompletes == BankAsWritten => <>BankDone

\* the actor whose mailbox the dispatch goroutine of a is sending to inside
\* its handler, "" when it is not inside a Send
SendTo(a) ==
    CASE a = "ping" /\ epc[a] = "handle" -> "pong"
      [] a = "ping" /\ epc[a] = "stop_self" -> "ping"
      [] a = "pong" /\ epc[a] = "handle" -> "ping"
      [] OTHER -> ""
\* actor a has a live dispatch goroutine and has not been stopped
IsRunning(a) ==
    epc[a] \in {"select", "handle", "stop_self"} /\ a \notin eclosed
\* the dispatch goroutine of a is inside a Send to a Running actor
InSend(a) == SendTo(a) # "" /\ IsRunning(SendTo(a))
\* every dispatch goroutine is inside a Send to a Running actor whose
\* mailbox is full
EveryLoopBlocked ==
    \A a \in DOMAIN ehandlers :
       InSend(a) /\ Len(ech[SendTo(a)]) = MailboxCap

\* C33: the dispatch loops of Running actors whose handlers Send to one
\* another are never all blocked inside Send on a full mailbox, and under
\* fair scheduling a Send to a Running actor eventually returns
C33_BackpressureNoDeadlock ==
    /\ [](~EveryLoopBlocked)
    /\ \A a \in {"ping", "pong"} : InSend(a) ~> ~InSend(a)

\* the jobs of the results the processor has received, in order
JobsProcessed ==
    [i \in 1 .. Len(ehist["processor"]) |-> ehist["processor"][i][2]]
\* sequence q holds each of 1 .. n exactly once
Permutation(q, n) ==
    Len(q) = n /\ \A j \in 1 .. n : \E i \in 1 .. n : q[i] = j

\* no job is taken by two workers; results is closed only when every worker
\* has returned and no worker sends on it closed; the processor ends after
\* exactly one result for each job
WorkerPoolSafe ==
    /\ \A w, v \in PoolWorkers : \A i \in 1 .. Len(ehist[w]) :
         \A j \in 1 .. Len(ehist[v]) :
            ehist[w][i] = ehist[v][j] => w = v /\ i = j
    /\ "results" \in eclosed => \A w \in PoolWorkers : epc[w] = "done"
    /\ \A w \in PoolWorkers : epc[w] # "panicked"
    /\ ~crashed
    /\ epc["processor"] = "done" => Permutation(JobsProcessed, emem.jobs)

\* C34: in workerPoolCSPExample each job is taken by exactly one worker and
\* yields exactly one result, results is closed only after all workers have
\* returned, no worker sends on closed results, and the result processor
\* terminates after one result for every job
C34_WorkerPool == [](WorkerPoolSafe) /\ <>(epc["processor"] = "done")

\* three jobs went to three different workers and the processor has ended
C34_Witness ==
    /\ DOMAIN epc = PoolWorkers \cup {"scheduler", "closer", "processor"}
    /\ epc["processor"] = "done"
    /\ \A w \in PoolWorkers : Len(ehist[w]) = 1

\* the request the service holds, as a sequence
InService == IF eloc["service"] = 0 THEN << >> ELSE <<eloc["service"]>>

\* the responses carry the IDs of the requests in the order the requests
\* were enqueued, one each
ResponsesFollowRequests ==
    ehist["collector"] \o ech["responses"] \o InService \o ech["requests"]
       = ehist["enqueued"]
\* responses is closed only when requests is closed and drained
ResponsesClosedLast ==
    "responses" \in eclosed =>
       "requests" \in eclosed /\ ech["requests"] = << >> /\ InService = << >>
\* no client has sent on requests after it was closed
NoSendAfterClose == \A c \in RRClients : epc[c] # "panicked"

\* C35: in requestResponseCSPExample every request enqueued produces one
\* Response with its RequestID, in the order of the requests; responses is
\* closed only after requests is closed and drained; and no client sends on
\* requests after the closer has closed it
C35_RequestResponse ==
    ResponsesFollowRequests /\ ResponsesClosedLast /\ NoSendAfterClose

\* the statuses of order id the monitor has received, in order
StatusesOf(id) ==
    LET mine == SelectSeq(ehist["monitor"], LAMBDA st : st[1] = id)
    IN  [i \in 1 .. Len(mine) |-> mine[i][2]]

\* C36: in comprehensiveCSPExample the monitor receives the statuses of
\* every order that passes validation in the order VALIDATED, PROCESSED,
\* COMPLETED
C36_StatusOrder ==
    \A id \in 1 .. NumOrders :
       ValidOrder(id) =>
          StatusesOf(id) = SubSeq(<<"VALIDATED", "PROCESSED", "COMPLETED">>,
                                  1, Len(StatusesOf(id)))

\* the messages published to topic t, in publication order
PublishedTo(t) == SelectSeq(Published, LAMBDA msg : msg.topic = t)

\* C37: in pubSubCSPExample every goroutine subscribed to a topic has
\* received every message published to that topic, in publication order,
\* when it observes the closure of the topic
C37_EverySubscriberGetsAll ==
    \A g \in DOMAIN TopicReaders :
       epc[g] = "done" => ehist[g] = PublishedTo(TopicReaders[g])

\* no element occurs twice in the sequence
NoRepeats(q) == \A i, j \in 1..Len(q) : q[i] = q[j] => i = j

\* results that were sent or are still to be sent, and were not read
UnreadResults == emem.submitted - Len(ehist.got)

GenericPoolSafe ==
    /\ NoRepeats(ehist.taken)
    /\ \A i \in 1..Len(ehist.taken) : ehist.taken[i] \in 1..emem.submitted
    /\ NoRepeats(ehist.sent)
    /\ \A i \in 1..Len(ehist.sent) :
          \E j \in 1..Len(ehist.taken) :
             ehist.sent[i] = Processor(ehist.taken[j])
    /\ \A w \in PoolWorkersOf(emem.workers) : epc[w] # "panicked"
    /\ "resultChan" \in eclosed =>
          /\ \A w \in PoolWorkersOf(emem.workers) : epc[w] = "done"
          /\ Len(ehist.sent) = emem.submitted

\* Close has been called, and the results not yet read fit in the result
\* buffer or a concurrent goroutine is calling GetResult
CloseCalled ==
    /\ epc["caller"] = "wait"
    /\ \/ UnreadResults <= PoolCap(emem.workers)
       \/ epc["consumer"] = "run"

\* C38: every submitted job is taken by exactly one worker and produces
\* exactly one value on resultChan, no worker sends on resultChan after it
\* is closed, which happens only when all workers have exited; and Close
\* returns when the unread results fit in the result buffer or are being
\* consumed
C38_GenericWorkerPool ==
    /\ [](GenericPoolSafe)
    /\ CloseCalled ~> (epc["caller"] = "done")

C38_Witness ==
    /\ epc["caller"] = "done"
    /\ emem.submitted = MaxSubmits
    /\ Len(ehist.sent) = MaxSubmits
    /\ Len(ehist.got) < MaxSubmits

\* C39: mutexExample never returns: the caller reaches the second
\* nestedMu.Lock() only after the five counting goroutines have finished,
\* holding nestedMu itself, and that Lock is never granted, so "Second lock
\* acquired" is never reached
C39_MutexExampleNeverReturns ==
    /\ epc["main"] # "acquired"
    /\ epc["main"] = "lock2" =>
          /\ emem.nestedMu
          /\ \A g \in Counters : epc[g] = "done"
          /\ ~ENABLED MX_NestedLock

C39_Witness ==
    /\ epc["main"] = "lock2"
    /\ ~crashed
    /\ emem.counter = NumCounters * emem.iterations
    /\ emem.iterations = MaxIterations

====
